---- MODULE Spec2Model ----
(***************************************************************************)
(* p2bin: conversion of a Macro Assembler AS code file (a stream of        *)
(* records) into a flat binary image, with runs of Z80 segments sent       *)
(* through a compressor.  src/main.c holds two variants of the program:    *)
(* the list-based engine (lines 1-617, regions registered with -z) and the *)
(* legacy engine (lines 619-1185, one implicit region at address 0 plus an *)
(* optional additional address).                                           *)
(*                                                                         *)
(* One step of the model is one pass through main's prologue, one          *)
(* iteration of the ProcessRecords loop, or main's epilogue.  The input    *)
(* file is read strictly sequentially, so the bytes of each record are     *)
(* chosen when the iteration that reads them runs.                         *)
(*                                                                         *)
(* Integers: 'unsigned long' is taken to be wider than 48 bits (LP64), so  *)
(* start_address + length never wraps; addresses of the model stay small.  *)
(***************************************************************************)
EXTENDS Integers, Sequences, FiniteSets, TLC

VARIABLES
    env,                          \* the environment: what the input stream and the encoders may produce
    header_filename,              \* main.c:59
    header_file,                  \* the file header_filename names: NoFile or its characters
    input_read,                   \* the bytes read from input_file by the last step
    output_file,                  \* main.c:60: [data, pos]
    output_exists,                \* whether the output file is present on disk
    padding_buffer,               \* main.c:62: the byte the buffer is filled with
    z80_buffer,                   \* main.c:63
    z80_read_index,               \* main.c:64
    z80_write_index,              \* main.c:64
    maximum_address,              \* main.c:65
    last_z80_segment_end,         \* main.c:66
    padding_value,                \* main.c:67
    previous_68k_segment_start,   \* main.c:68
    previous_68k_segment_length,  \* main.c:69
    compressed_segment_list_head, \* main.c:70: the registered regions, head first
    current_compressed_segment,   \* main.c:71: NULL or an index into the list
    last_segment_was_compressable_z80_code, \* main.c:666 (legacy engine)
    compression_format,           \* main.c:668
    additional_compressed_segment_address, \* main.c:670
    skdisasm_compatibility,       \* main.c:673
    constants,                    \* main.c:674
    current_constant,             \* main.c:675: 0 or 1
    pc,                           \* where main is: "magic", "records", "returned", "exit"
    result,                       \* what ProcessRecords returned / why main failed
    exit_code,                    \* main.c:423
    records_done,                 \* iterations of the ProcessRecords loop so far
    history,                      \* every run opened, flushed, every write and report, in order
    mark                          \* Len(history) before the last step

vars == <<env, header_filename, header_file, input_read, output_file, output_exists,
          padding_buffer, z80_buffer, z80_read_index, z80_write_index, maximum_address,
          last_z80_segment_end, padding_value, previous_68k_segment_start,
          previous_68k_segment_length, compressed_segment_list_head,
          current_compressed_segment, last_segment_was_compressable_z80_code,
          compression_format, additional_compressed_segment_address,
          skdisasm_compatibility, constants, current_constant,
          pc, result, exit_code, records_done, history, mark>>

----------------------------------------------------------------------------
(* Bounds of the exploration. *)

\* Iterations of the ProcessRecords loop explored.
MaxRecords == 3

----------------------------------------------------------------------------
(* Program constants. *)

NULL == 0
NullName == "(null)"               \* header_filename when no header file is named
NoFile == <<"no such file">>
Hole == -1                        \* an offset of a file that was never written (reads as 0)
EXIT_SUCCESS == 0
EXIT_FAILURE == 1
\* (unsigned long)-1: no 4-byte address read from the input equals it.
ULONG_MAX == -1
\* sizeof(z80_buffer)
Z80BufferSize == 8192
\* sizeof(padding_buffer)
PaddingBufferSize == 4096
\* sizeof(copy_buffer)
CopyBufferSize == 4096
\* Processor family of Z80 code.
Z80Family == 81
\* ASCII 'N'
SaxmanTerminator == 78

CC_MIN(a, b) == IF a < b THEN a ELSE b

Max(a, b) == IF a > b THEN a ELSE b

----------------------------------------------------------------------------
(* stdio: a file is its bytes and the position of the stream. *)

\* data with bytes stored from offset pos on; offsets skipped over become holes.
Overlay(data, pos, bytes) ==
    IF Len(bytes) = 0 THEN data
    ELSE SubSeq(data, 1, CC_MIN(pos, Len(data)))
            \o [i \in 1..Max(pos - Len(data), 0) |-> Hole]
            \o bytes
            \o SubSeq(data, pos + Len(bytes) + 1, Len(data))

fseek(f, position) == [f EXCEPT !.pos = position]

ftell(f) == f.pos

\* fwrite(bytes, Len(bytes), 1, f): nothing is written when the size is 0.
fwrite(f, bytes) ==
    [data |-> Overlay(f.data, f.pos, bytes), pos |-> f.pos + Len(bytes)]

\* fputc converts its argument to unsigned char.
fputc(f, byte) == fwrite(f, <<byte % 256>>)

\* fputc of each byte in turn (the encoders' write callbacks).
fputcs(f, bytes) == fwrite(f, [i \in 1..Len(bytes) |-> bytes[i] % 256])

----------------------------------------------------------------------------
(* The mutable globals of one step, threaded through the functions below.  *)
(* error is "" until a longjmp or a failing return is taken.               *)

\* value bound to a name for the rest of a computation
With(value, Do(_)) == CHOOSE done \in {Do(v) : v \in {value}} : TRUE

Log(st, e) == [st EXCEPT !.history = Append(@, e)]

longjmp(st, why) == [st EXCEPT !.error = why]

\* The end of the file read as a byte 0.
ReadByte_ZeroAtEnd(st) ==
    IF st.input = <<>>
    THEN [st |-> st, value |-> 0]
    ELSE [st |-> [st EXCEPT !.input = Tail(@)], value |-> Head(st.input)]

ReadByte(st) ==
    IF st.input = <<>>
    THEN [st |-> longjmp(st, "File ended prematurely"), value |-> 0]
    ELSE [st |-> [st EXCEPT !.input = Tail(@)], value |-> Head(st.input)]

\* fread(buffer, total_bytes, 1, input_file) == 0: fewer than total_bytes bytes are
\* left, or total_bytes is 0 (fread returns 0 when the size is 0).
ReadBytes(st, total_bytes) ==
    IF total_bytes = 0
    THEN [st |-> longjmp(st, "File ended prematurely"), value |-> <<>>]
    ELSE IF Len(st.input) < total_bytes
    THEN [st |-> longjmp([st EXCEPT !.input = <<>>], "File ended prematurely"),
          value |-> <<>>]
    ELSE [st |-> [st EXCEPT !.input = SubSeq(@, total_bytes + 1, Len(@))],
          value |-> SubSeq(st.input, 1, total_bytes)]

RECURSIVE ReadIntegerLoop(_, _, _, _)
ReadIntegerLoop(st, total_bytes, i, value) ==
    IF i < total_bytes
    THEN With(ReadByte(st), LAMBDA r :
            IF r.st.error # "" THEN r
            ELSE ReadIntegerLoop(r.st, total_bytes, i + 1, value + r.value * (2 ^ (i * 8))))
    ELSE [st |-> st, value |-> value]

ReadInteger(st, total_bytes) == ReadIntegerLoop(st, total_bytes, 0, 0)

\* The two bytes taken most significant first.
ReadWord_BigEndian(st) ==
    With(ReadInteger(st, 2), LAMBDA r :
        [st |-> r.st, value |-> (r.value % 256) * 256 + (r.value \div 256)])

ReadWord(st) == ReadInteger(st, 2)

ReadLongInt(st) == ReadInteger(st, 4)

----------------------------------------------------------------------------
(* The list-based engine, main.c lines 1-617. *)

\* Every byte ever stored in z80_buffer.
BufferBytes_Whole(buffer, n) == buffer

\* The first n bytes of z80_buffer; what was never stored is the array's initial 0.
BufferBytes(buffer, n) == [i \in 1..n |-> IF i <= Len(buffer) THEN buffer[i] ELSE 0]

StreamingCompression == {"COMPRESSION_KOSINSKI", "COMPRESSION_SAXMAN"}

OptimisedCompression ==
    {"COMPRESSION_KOSINSKI_OPTIMISED", "COMPRESSION_SAXMAN_OPTIMISED", "COMPRESSION_KOSINSKIPLUS"}

\* Zero bytes up to the next position that is 0x10 bytes further on or less.
KosinskiPadding_Always(f, start_address) ==
    fputcs(f, [i \in 1..(16 - ((ftell(f) - start_address) % 16)) |-> 0])

\* Kosinski-compressed data is always padded to 0x10 bytes (main.c:193-197).
KosinskiPadding(f, start_address) ==
    fputcs(f, [i \in 1..((0 - (ftell(f) - start_address)) % 16) |-> 0])

\* The switch whose Saxman case writes the encoder's bytes and nothing more.
Compress_NoTerminator(st, compression, start_address, enc) ==
    CASE compression = "COMPRESSION_UNCOMPRESSED" ->
            [st EXCEPT !.output_file = fwrite(@, BufferBytes(st.z80_buffer, st.z80_write_index))]
      [] compression = "COMPRESSION_KOSINSKI" ->
            [st EXCEPT !.output_file = KosinskiPadding(fputcs(@, enc.out), start_address),
                       !.z80_read_index = st.z80_write_index]
      [] compression = "COMPRESSION_SAXMAN" ->
            [st EXCEPT !.output_file = fwrite(@, enc.out),
                       !.z80_read_index = st.z80_write_index]
      [] compression \in OptimisedCompression ->
            IF ~enc.ok
            THEN longjmp(st, "Failed to allocate memory for compressor")
            ELSE [st EXCEPT !.output_file = fputcs(@, enc.out)]

\* The switch of EmitCompressedZ80Code (main.c:180-233).  enc is what the encoder
\* library does with the buffer: the bytes it writes (enc.out) and whether it got
\* its memory (enc.ok).  The streaming encoders read the buffer to its end.
Compress(st, compression, start_address, enc) ==
    CASE compression = "COMPRESSION_UNCOMPRESSED" ->
            [st EXCEPT !.output_file = fwrite(@, BufferBytes(st.z80_buffer, st.z80_write_index))]
      [] compression = "COMPRESSION_KOSINSKI" ->
            [st EXCEPT !.output_file = KosinskiPadding(fputcs(@, enc.out), start_address),
                       !.z80_read_index = st.z80_write_index]
      [] compression = "COMPRESSION_SAXMAN" ->
            [st EXCEPT !.output_file = fputc(fwrite(@, enc.out), SaxmanTerminator),
                       !.z80_read_index = st.z80_write_index]
      [] compression \in OptimisedCompression ->
            IF ~enc.ok
            THEN longjmp(st, "Failed to allocate memory for compressor")
            ELSE [st EXCEPT !.output_file = fputcs(@, enc.out)]

\* main.c:162-166
NotEnoughSpace(st, compressed_segment, compressed_z80_code_size) ==
    longjmp(Log(st, [type |-> "not enough space", region |-> compressed_segment,
                     size |-> compressed_z80_code_size]),
            "Space reserved for the compressed Z80 segments is too small")

\* The flush that leaves maximum_address as it was.
Measure_NoMaximum(st, compressed, type, start_address, end_address) ==
    LET compressed_z80_code_size == end_address - start_address
        flush == [type |-> "flush", region |-> st.current_compressed_segment,
                  input |-> BufferBytes(st.z80_buffer, st.z80_write_index),
                  start |-> start_address, end |-> end_address,
                  size |-> compressed_z80_code_size, completed |-> TRUE]
    IN  IF compressed.error # ""
        THEN [st |-> Log(compressed, [flush EXCEPT !.completed = FALSE]), value |-> 0]
        ELSE [st |-> [Log(compressed, flush) EXCEPT !.current_compressed_segment = NULL],
              value |-> compressed_z80_code_size]

\* The flush that fails unless the output is smaller than the previous segment.
Measure_RejectsEqual(st, compressed, type, start_address, end_address) ==
    LET compressed_z80_code_size == end_address - start_address
        flush == [type |-> "flush", region |-> st.current_compressed_segment,
                  input |-> BufferBytes(st.z80_buffer, st.z80_write_index),
                  start |-> start_address, end |-> end_address,
                  size |-> compressed_z80_code_size, completed |-> FALSE]
    IN  IF compressed.error # ""
        THEN [st |-> Log(compressed, flush), value |-> 0]
        ELSE With(Log([compressed EXCEPT !.maximum_address =
                           IF end_address > @ THEN end_address ELSE @],
                      [flush EXCEPT !.completed = TRUE]),
                  LAMBDA measured :
                    IF type = "TYPE_BEFORE"
                       /\ compressed_z80_code_size >= st.previous_68k_segment_length
                    THEN [st |-> NotEnoughSpace(measured, st.current_compressed_segment,
                                                compressed_z80_code_size),
                          value |-> 0]
                    ELSE [st |-> [measured EXCEPT !.current_compressed_segment = NULL],
                          value |-> compressed_z80_code_size])

\* The flush that never finds the previous segment too small.
Measure_NeverRejects(st, compressed, type, start_address, end_address) ==
    LET compressed_z80_code_size == end_address - start_address
        flush == [type |-> "flush", region |-> st.current_compressed_segment,
                  input |-> BufferBytes(st.z80_buffer, st.z80_write_index),
                  start |-> start_address, end |-> end_address,
                  size |-> compressed_z80_code_size, completed |-> FALSE]
    IN  IF compressed.error # ""
        THEN [st |-> Log(compressed, flush), value |-> 0]
        ELSE [st |-> [Log([compressed EXCEPT !.maximum_address =
                               IF end_address > @ THEN end_address ELSE @],
                          [flush EXCEPT !.completed = TRUE])
                      EXCEPT !.current_compressed_segment = NULL],
              value |-> compressed_z80_code_size]

\* main.c:235-248: st is the state before the flush, compressed the one after the switch.
Measure(st, compressed, type, start_address, end_address) ==
    LET compressed_z80_code_size == end_address - start_address
        flush == [type |-> "flush", region |-> st.current_compressed_segment,
                  input |-> BufferBytes(st.z80_buffer, st.z80_write_index),
                  start |-> start_address, end |-> end_address,
                  size |-> compressed_z80_code_size, completed |-> FALSE]
    IN  IF compressed.error # ""
        THEN [st |-> Log(compressed, flush), value |-> 0]
        ELSE With(Log([compressed EXCEPT !.maximum_address =
                           IF end_address > @ THEN end_address ELSE @],
                      [flush EXCEPT !.completed = TRUE]),
                  LAMBDA measured :
                    IF type = "TYPE_BEFORE"
                       /\ compressed_z80_code_size > st.previous_68k_segment_length
                    THEN [st |-> NotEnoughSpace(measured, st.current_compressed_segment,
                                                compressed_z80_code_size),
                          value |-> 0]
                    ELSE [st |-> [measured EXCEPT !.current_compressed_segment = NULL],
                          value |-> compressed_z80_code_size])

\* The function that rewinds to the previous segment even with no run in progress.
EmitCompressedZ80Code_Rewinds(st, enc) ==
    IF st.current_compressed_segment # NULL
    THEN With(compressed_segment_list_head[st.current_compressed_segment], LAMBDA segment :
         With(IF segment.type = "TYPE_BEFORE"
              THEN fseek(st.output_file, st.previous_68k_segment_start)
              ELSE st.output_file, LAMBDA rewound :
         With(Compress([st EXCEPT !.output_file = rewound], segment.compression,
                       ftell(rewound), enc), LAMBDA compressed :
            Measure(st, compressed, segment.type, ftell(rewound),
                    ftell(compressed.output_file)))))
    ELSE [st |-> [st EXCEPT !.output_file = fseek(@, st.previous_68k_segment_start)],
          value |-> 0]

\* The function that writes a run at maximum_address.
EmitCompressedZ80Code_AtMaximum(st, enc) ==
    IF st.current_compressed_segment # NULL
    THEN With(compressed_segment_list_head[st.current_compressed_segment], LAMBDA segment :
         With(IF segment.type = "TYPE_BEFORE"
              THEN fseek(st.output_file, st.previous_68k_segment_start)
              ELSE fseek(st.output_file, st.maximum_address), LAMBDA rewound :
         With(Compress([st EXCEPT !.output_file = rewound], segment.compression,
                       ftell(rewound), enc), LAMBDA compressed :
            Measure(st, compressed, segment.type, ftell(rewound),
                    ftell(compressed.output_file)))))
    ELSE [st |-> st, value |-> 0]

\* main.c:168-252.  Returns the state and the function's return value.
EmitCompressedZ80Code(st, enc) ==
    IF st.current_compressed_segment # NULL
    THEN With(compressed_segment_list_head[st.current_compressed_segment], LAMBDA segment :
         With(IF segment.type = "TYPE_BEFORE"
              THEN fseek(st.output_file, st.previous_68k_segment_start)
              ELSE st.output_file, LAMBDA rewound :
         With(Compress([st EXCEPT !.output_file = rewound], segment.compression,
                       ftell(rewound), enc), LAMBDA compressed :
            Measure(st, compressed, segment.type, ftell(rewound),
                    ftell(compressed.output_file)))))
    ELSE [st |-> st, value |-> 0]

\* The lookup made for segments of every family.
MatchingCompressedSegment_AnyFamily(processor_family, start_address) ==
    LET matches == {i \in 1..Len(compressed_segment_list_head) :
                        compressed_segment_list_head[i].starting_address = start_address}
    IN  IF matches # {}
        THEN CHOOSE i \in matches : \A j \in matches : i <= j
        ELSE NULL

\* main.c:262-265: the first region of the list that starts at start_address.
MatchingCompressedSegment(processor_family, start_address) ==
    LET matches == {i \in 1..Len(compressed_segment_list_head) :
                        compressed_segment_list_head[i].starting_address = start_address}
    IN  IF processor_family = Z80Family /\ matches # {}
        THEN CHOOSE i \in matches : \A j \in matches : i <= j
        ELSE NULL

HexDigit ==
    <<"0", "1", "2", "3", "4", "5", "6", "7", "8", "9", "A", "B", "C", "D", "E", "F">>

\* printf's %lX
RECURSIVE FormatHex(_)
FormatHex(n) ==
    IF n < 16 THEN <<HexDigit[n + 1]>>
    ELSE FormatHex(n \div 16) \o <<HexDigit[(n % 16) + 1]>>

\* fprintf(header_file, "comp_z80_size 0x%lX ", compressed_z80_code_size)
SizeReport(compressed_z80_code_size) ==
    <<"c", "o", "m", "p", "_", "z", "8", "0", "_", "s", "i", "z", "e", " ", "0", "x">>
        \o FormatHex(compressed_z80_code_size) \o <<" ">>

\* The header file opened for writing: what it held is lost.
AmendHeaderFile_Truncates(st, compressed_z80_code_size) ==
    IF header_filename # NullName
    THEN IF st.header_file = NoFile
         THEN longjmp(st, "Could not open header file for amending")
         ELSE With(SizeReport(compressed_z80_code_size), LAMBDA text :
                Log([st EXCEPT !.header_file = text],
                    [type |-> "report", text |-> text, size |-> compressed_z80_code_size]))
    ELSE st

\* main.c:311-326: fopen(header_filename, "r+") neither creates nor truncates.
AmendHeaderFile(st, compressed_z80_code_size) ==
    IF header_filename # NullName
    THEN IF st.header_file = NoFile
         THEN longjmp(st, "Could not open header file for amending")
         ELSE With(SizeReport(compressed_z80_code_size), LAMBDA text :
                Log([st EXCEPT !.header_file = Overlay(@, 0, text)],
                    [type |-> "report", text |-> text, size |-> compressed_z80_code_size]))
    ELSE st

\* main.c:336-337
RECURSIVE PaddingLoop(_, _, _)
PaddingLoop(f, padding_length, i) ==
    IF i < padding_length
    THEN PaddingLoop(fwrite(f, [k \in 1..CC_MIN(PaddingBufferSize, padding_length - i) |->
                                    padding_buffer]),
                     padding_length, i + PaddingBufferSize)
    ELSE f

\* The stream seeks to the segment, and nothing is padded.
SeekToSegment_NoPadding(st, start_address) ==
    [st EXCEPT !.output_file = fseek(@, start_address)]

\* The segment placed at maximum_address, whatever its address.
SeekToSegment_Append(st, start_address) ==
    [st EXCEPT !.output_file = fseek(@, st.maximum_address)]

\* main.c:329-342
SeekToSegment(st, start_address) ==
    IF start_address > st.maximum_address
    THEN Log([st EXCEPT !.output_file =
                  PaddingLoop(fseek(@, st.maximum_address),
                              start_address - st.maximum_address, 0)],
             [type |-> "padding", start |-> st.maximum_address,
              length |-> start_address - st.maximum_address, byte |-> padding_buffer])
    ELSE [st EXCEPT !.output_file = fseek(@, start_address)]

\* main.c:344-351
RECURSIVE CopyLoop(_, _, _)
CopyLoop(st, length, i) ==
    IF i < length
    THEN With(ReadBytes(st, CC_MIN(CopyBufferSize, length - i)), LAMBDA r :
            IF r.st.error # "" THEN r.st
            ELSE CopyLoop([r.st EXCEPT !.output_file = fwrite(@, r.value)],
                          length, i + CopyBufferSize))
    ELSE st

\* maximum_address set to the end of the segment, higher or not.
CopySegment_SetsMaximum(st, start_address, length) ==
    With(CopyLoop(SeekToSegment(st, start_address), length, 0), LAMBDA copied :
        IF copied.error # "" THEN copied
        ELSE Log([copied EXCEPT
                     !.maximum_address = start_address + length,
                     !.previous_68k_segment_start = start_address,
                     !.previous_68k_segment_length = length],
                 [type |-> "verbatim", start |-> start_address,
                  payload |-> SubSeq(st.input, 1, length),
                  max_before |-> st.maximum_address]))

\* main.c:329-357: the segment is copied to the output as it is.
CopySegment(st, start_address, length) ==
    With(CopyLoop(SeekToSegment(st, start_address), length, 0), LAMBDA copied :
        IF copied.error # "" THEN copied
        ELSE Log([copied EXCEPT
                     !.maximum_address =
                         IF start_address + length > @ THEN start_address + length ELSE @,
                     !.previous_68k_segment_start = start_address,
                     !.previous_68k_segment_length = length],
                 [type |-> "verbatim", start |-> start_address,
                  payload |-> SubSeq(st.input, 1, length),
                  max_before |-> st.maximum_address]))

\* The run output before the segment, wherever the segment starts.
EmitBeforeSegment_NoOverlapCheck(st, start_address, enc) ==
    IF st.current_compressed_segment # NULL
    THEN With(EmitCompressedZ80Code(st, enc), LAMBDA emitted :
            IF emitted.st.error # "" THEN emitted.st
            ELSE AmendHeaderFile(emitted.st, emitted.value))
    ELSE st

\* The check that fails only for a segment that starts inside the run's output.
EmitBeforeSegment_Intersects(st, start_address, enc) ==
    IF st.current_compressed_segment # NULL
    THEN With(EmitCompressedZ80Code(st, enc), LAMBDA emitted :
            IF emitted.st.error # "" THEN emitted.st
            ELSE IF compressed_segment_list_head[st.current_compressed_segment].type = "TYPE_AFTER"
                    /\ start_address < ftell(emitted.st.output_file)
                    /\ start_address >= ftell(emitted.st.output_file) - emitted.value
            THEN NotEnoughSpace(emitted.st, st.current_compressed_segment, emitted.value)
            ELSE AmendHeaderFile(emitted.st, emitted.value))
    ELSE st

\* main.c:301-327: a run in progress is output before the segment is.
EmitBeforeSegment(st, start_address, enc) ==
    IF st.current_compressed_segment # NULL
    THEN With(EmitCompressedZ80Code(st, enc), LAMBDA emitted :
            IF emitted.st.error # "" THEN emitted.st
            ELSE IF compressed_segment_list_head[st.current_compressed_segment].type = "TYPE_AFTER"
                    /\ start_address < ftell(emitted.st.output_file)
            THEN NotEnoughSpace(emitted.st, st.current_compressed_segment, emitted.value)
            ELSE AmendHeaderFile(emitted.st, emitted.value))
    ELSE st

\* A new run begun over the run in progress.
BeginRun_NoFlush(st, start_address, matching_compressed_segment, enc) ==
    Log([st EXCEPT !.current_compressed_segment = matching_compressed_segment,
                   !.z80_read_index = 0,
                   !.z80_write_index = 0],
        [type |-> "open", region |-> matching_compressed_segment, start |-> start_address])

\* The new run that goes on where the buffer of the last one ended.
BeginRun_KeepsIndices(st, start_address, matching_compressed_segment, enc) ==
    With(EmitCompressedZ80Code(st, enc).st, LAMBDA emitted :
        IF emitted.error # "" THEN emitted
        ELSE Log([emitted EXCEPT !.current_compressed_segment = matching_compressed_segment],
                 [type |-> "open", region |-> matching_compressed_segment,
                  start |-> start_address]))

\* main.c:276-282: a segment that does not continue the run begins a new one.
BeginRun(st, start_address, matching_compressed_segment, enc) ==
    With(EmitCompressedZ80Code(st, enc).st, LAMBDA emitted :
        IF emitted.error # "" THEN emitted
        ELSE Log([emitted EXCEPT !.current_compressed_segment = matching_compressed_segment,
                                 !.z80_read_index = 0,
                                 !.z80_write_index = 0],
                 [type |-> "open", region |-> matching_compressed_segment,
                  start |-> start_address]))

\* The segment read into z80_buffer, whatever its length.
AppendToRun_Unchecked(st, start_address, length) ==
    With(ReadBytes([st EXCEPT !.last_z80_segment_end = start_address + length], length),
         LAMBDA r :
            IF r.st.error # "" THEN r.st
            ELSE Log([r.st EXCEPT
                         !.z80_buffer = Overlay(@, st.z80_write_index, r.value),
                         !.z80_write_index = @ + length],
                     [type |-> "append", start |-> start_address, payload |-> r.value]))

\* main.c:284-293
AppendToRun(st, start_address, length) ==
    IF st.z80_write_index + length > Z80BufferSize
    THEN longjmp([st EXCEPT !.last_z80_segment_end = start_address + length],
                 "Compressed Z80 segment is too large")
    ELSE With(ReadBytes([st EXCEPT !.last_z80_segment_end = start_address + length], length),
              LAMBDA r :
                IF r.st.error # "" THEN r.st
                ELSE Log([r.st EXCEPT
                             !.z80_buffer = Overlay(@, st.z80_write_index, r.value),
                             !.z80_write_index = @ + length],
                         [type |-> "append", start |-> start_address, payload |-> r.value]))

\* main.c:269-294: the segment is read into z80_buffer.
BufferSegment(st, start_address, length, matching_compressed_segment, is_continued_compressed_segment, enc) ==
    IF is_continued_compressed_segment
    THEN AppendToRun(st, start_address, length)
    ELSE With(BeginRun(st, start_address, matching_compressed_segment, enc), LAMBDA begun :
            IF begun.error # "" THEN begun
            ELSE AppendToRun(begun, start_address, length))

\* main.c:259-358, once start_address and length are read.
RouteSegment(st, processor_family, start_address, length, enc) ==
    LET is_continued_compressed_segment ==
            /\ processor_family = Z80Family
            /\ st.current_compressed_segment # NULL
            /\ start_address = st.last_z80_segment_end
        matching_compressed_segment == MatchingCompressedSegment(processor_family, start_address)
    IN  IF matching_compressed_segment # NULL \/ is_continued_compressed_segment
        THEN BufferSegment(Log(st, [type |-> "segment", family |-> processor_family,
                                    start |-> start_address, length |-> length,
                                    to |-> "z80_buffer"]),
                           start_address, length, matching_compressed_segment,
                           is_continued_compressed_segment, enc)
        ELSE With(EmitBeforeSegment(Log(st, [type |-> "segment", family |-> processor_family,
                                             start |-> start_address, length |-> length,
                                             to |-> "output_file"]),
                                    start_address, enc),
                  LAMBDA emitted :
                    IF emitted.error # "" THEN emitted
                    ELSE CopySegment(emitted, start_address, length))

\* main.c:254-359
ProcessSegment(st, processor_family, enc) ==
    With(ReadLongInt(st), LAMBDA r1 :
        IF r1.st.error # "" THEN r1.st
        ELSE With(ReadWord(r1.st), LAMBDA r2 :
                IF r2.st.error # "" THEN r2.st
                ELSE RouteSegment(r2.st, processor_family, r1.value, r2.value, enc)))

\* The segment processed whatever its granularity.
ProcessArbitrarySegment_AnyGranularity(st, enc) ==
    With(ReadByte(st), LAMBDA f :
        IF f.st.error # "" THEN f.st
        ELSE With(ReadByte(f.st), LAMBDA s :
        IF s.st.error # "" THEN s.st
        ELSE With(ReadByte(s.st), LAMBDA g :
        IF g.st.error # "" THEN g.st
        ELSE ProcessSegment(g.st, f.value, enc))))

\* main.c:387-401: an arbitrary segment, after its header byte.
ProcessArbitrarySegment(st, enc) ==
    With(ReadByte(st), LAMBDA f :
        IF f.st.error # "" THEN f.st
        ELSE With(ReadByte(f.st), LAMBDA s :
        IF s.st.error # "" THEN s.st
        ELSE With(ReadByte(s.st), LAMBDA g :
        IF g.st.error # "" THEN g.st
        ELSE IF g.value # 1
        THEN [g.st EXCEPT !.returned = "cc_false", !.error = "Unsupported granularity"]
        ELSE ProcessSegment(g.st, f.value, enc))))

\* main.c:374-380: the end of the file.
ProcessEnd(st, enc) ==
    With(EmitCompressedZ80Code(st, enc).st, LAMBDA emitted :
        IF emitted.error # "" THEN emitted
        ELSE [emitted EXCEPT !.returned = "cc_true"])

\* The loop body in which an entry point ends the run in progress.
ProcessRecord_EntryPointEndsRun(st, enc) ==
    With(ReadByte(st), LAMBDA r :
        IF r.st.error # "" THEN r.st
        ELSE IF r.value = 0 THEN ProcessEnd(r.st, enc)
        ELSE IF r.value = 128
        THEN With(ReadLongInt(r.st).st, LAMBDA read :
                IF read.error # "" THEN read ELSE EmitCompressedZ80Code(read, enc).st)
        ELSE IF r.value = 129 THEN ProcessArbitrarySegment(r.st, enc)
        ELSE IF r.value >= 128
        THEN [r.st EXCEPT !.returned = "cc_false",
                          !.error = "Unrecognised record header value"]
        ELSE ProcessSegment(r.st, r.value, enc))

\* main.c:367-415: one iteration of the loop; returned is "" while the loop goes on.
ProcessRecord(st, enc) ==
    With(ReadByte(st), LAMBDA r :
        IF r.st.error # "" THEN r.st
        ELSE IF r.value = 0 THEN ProcessEnd(r.st, enc)
        ELSE IF r.value = 128 THEN ReadLongInt(r.st).st
        ELSE IF r.value = 129 THEN ProcessArbitrarySegment(r.st, enc)
        ELSE IF r.value >= 128
        THEN [r.st EXCEPT !.returned = "cc_false",
                          !.error = "Unrecognised record header value"]
        ELSE ProcessSegment(r.st, r.value, enc))

----------------------------------------------------------------------------
(* The legacy engine, main.c lines 619-1185. *)

\* main.c:766-769: a warning, and the conversion goes on.
Legacy_NotEnoughSpace(st, compressed_z80_code_size) ==
    Log(st, [type |-> "warning", constant |-> constants[st.current_constant + 1],
             size |-> compressed_z80_code_size])

\* main.c:829-842
Legacy_Measure(st, compressed, start_address, end_address) ==
    LET compressed_z80_code_size == end_address - start_address
        flush == [type |-> "flush", region |-> st.current_constant,
                  input |-> BufferBytes(st.z80_buffer, st.z80_write_index),
                  start |-> start_address, end |-> end_address,
                  size |-> compressed_z80_code_size, completed |-> FALSE]
    IN  IF compressed.error # ""
        THEN [st |-> Log(compressed, flush), value |-> 0]
        ELSE With(Log([compressed EXCEPT !.maximum_address =
                           IF end_address > @ THEN end_address ELSE @],
                      [flush EXCEPT !.completed = TRUE]),
                  LAMBDA measured :
                    [st |-> [(IF skdisasm_compatibility
                                 /\ compressed_z80_code_size > st.previous_68k_segment_length
                              THEN Legacy_NotEnoughSpace(measured, compressed_z80_code_size)
                              ELSE measured)
                             EXCEPT !.last_segment_was_compressable_z80_code = FALSE],
                     value |-> compressed_z80_code_size])

\* main.c:771-846
Legacy_EmitCompressedZ80Code(st, enc) ==
    IF st.last_segment_was_compressable_z80_code
    THEN With(IF skdisasm_compatibility
              THEN fseek(st.output_file, st.previous_68k_segment_start)
              ELSE st.output_file, LAMBDA rewound :
         With(Compress([st EXCEPT !.output_file = rewound], compression_format,
                       ftell(rewound), enc), LAMBDA compressed :
            Legacy_Measure(st, compressed, ftell(rewound), ftell(compressed.output_file))))
    ELSE [st |-> st, value |-> 0]

\* main.c:893-917
Legacy_EmitBeforeSegment(st, start_address, enc) ==
    With(Legacy_EmitCompressedZ80Code(st, enc), LAMBDA emitted :
        IF emitted.st.error # "" THEN emitted.st
        ELSE IF emitted.value # 0
        THEN AmendHeaderFile(IF ~skdisasm_compatibility
                                /\ start_address < ftell(emitted.st.output_file)
                             THEN Legacy_NotEnoughSpace(emitted.st, emitted.value)
                             ELSE emitted.st,
                             emitted.value)
        ELSE emitted.st)

\* main.c:863-874
Legacy_BeginRun(st, start_address, enc) ==
    With(Legacy_EmitCompressedZ80Code(st, enc).st, LAMBDA emitted :
        IF emitted.error # "" THEN emitted
        ELSE Log([emitted EXCEPT !.last_segment_was_compressable_z80_code = TRUE,
                                 !.z80_read_index = 0,
                                 !.z80_write_index = 0,
                                 !.current_constant =
                                     IF start_address = 0 THEN 0
                                     ELSE IF start_address = additional_compressed_segment_address
                                     THEN 1 ELSE @],
                 [type |-> "open",
                  region |-> IF start_address = 0 THEN 0
                             ELSE IF start_address = additional_compressed_segment_address
                             THEN 1 ELSE emitted.current_constant,
                  start |-> start_address]))

\* main.c:856-950, once start_address and length are read.
Legacy_RouteSegment(st, processor_family, start_address, length, enc) ==
    IF /\ processor_family = Z80Family
       /\ \/ start_address = 0
          \/ start_address = additional_compressed_segment_address
          \/ (st.last_segment_was_compressable_z80_code
              /\ start_address = st.last_z80_segment_end)
    THEN IF start_address # st.last_z80_segment_end
         THEN With(Legacy_BeginRun(Log(st, [type |-> "segment", family |-> processor_family,
                                            start |-> start_address, length |-> length,
                                            to |-> "z80_buffer"]),
                                   start_address, enc),
                   LAMBDA begun :
                     IF begun.error # "" THEN begun
                     ELSE AppendToRun(begun, start_address, length))
         ELSE AppendToRun(Log(st, [type |-> "segment", family |-> processor_family,
                                   start |-> start_address, length |-> length,
                                   to |-> "z80_buffer"]),
                          start_address, length)
    ELSE With(Legacy_EmitBeforeSegment(Log(st, [type |-> "segment", family |-> processor_family,
                                                start |-> start_address, length |-> length,
                                                to |-> "output_file"]),
                                       start_address, enc),
              LAMBDA emitted :
                IF emitted.error # "" THEN emitted
                ELSE CopySegment(emitted, start_address, length))

\* main.c:848-951
Legacy_ProcessSegment(st, processor_family, enc) ==
    With(ReadLongInt(st), LAMBDA r1 :
        IF r1.st.error # "" THEN r1.st
        ELSE With(ReadWord(r1.st), LAMBDA r2 :
                IF r2.st.error # "" THEN r2.st
                ELSE Legacy_RouteSegment(r2.st, processor_family, r1.value, r2.value, enc)))

\* main.c:979-993
Legacy_ProcessArbitrarySegment(st, enc) ==
    With(ReadByte(st), LAMBDA f :
        IF f.st.error # "" THEN f.st
        ELSE With(ReadByte(f.st), LAMBDA s :
        IF s.st.error # "" THEN s.st
        ELSE With(ReadByte(s.st), LAMBDA g :
        IF g.st.error # "" THEN g.st
        ELSE IF g.value # 1
        THEN [g.st EXCEPT !.returned = "cc_false", !.error = "Unsupported granularity"]
        ELSE Legacy_ProcessSegment(g.st, f.value, enc))))

\* main.c:966-972
Legacy_ProcessEnd(st, enc) ==
    With(Legacy_EmitCompressedZ80Code(st, enc).st, LAMBDA emitted :
        IF emitted.error # "" THEN emitted
        ELSE [emitted EXCEPT !.returned = "cc_true"])

\* main.c:959-1007
Legacy_ProcessRecord(st, enc) ==
    With(ReadByte(st), LAMBDA r :
        IF r.st.error # "" THEN r.st
        ELSE IF r.value = 0 THEN Legacy_ProcessEnd(r.st, enc)
        ELSE IF r.value = 128 THEN ReadLongInt(r.st).st
        ELSE IF r.value = 129 THEN Legacy_ProcessArbitrarySegment(r.st, enc)
        ELSE IF r.value >= 128
        THEN [r.st EXCEPT !.returned = "cc_false",
                          !.error = "Unrecognised record header value"]
        ELSE Legacy_ProcessSegment(r.st, r.value, enc))

----------------------------------------------------------------------------
(* The input: records of an AS code file, as bytes. *)

\* value in total_bytes bytes, least significant first
LittleEndian(value, total_bytes) ==
    [i \in 1..total_bytes |-> (value \div (256 ^ (i - 1))) % 256]

\* length bytes counting up from first
Payload(first, length) == [i \in 1..length |-> (first + i - 1) % 256]

LegacySegment(processor_family, start_address, payload) ==
    <<processor_family>> \o LittleEndian(start_address, 4)
        \o LittleEndian(Len(payload), 2) \o payload

ExtendedSegment(processor_family, granularity, start_address, payload) ==
    <<129, processor_family, 0, granularity>> \o LittleEndian(start_address, 4)
        \o LittleEndian(Len(payload), 2) \o payload

EntryPoint(address) == <<128>> \o LittleEndian(address, 4)

EndMarker == <<0>>

\* The stream ending inside a record: the record cut after k bytes.
Truncated(record, cuts) == {SubSeq(record, 1, k) : k \in {c \in cuts : c < Len(record)}}

Magic == <<137, 20>>

Magics == {Magic, <<137, 21>>, <<0, 20>>, <<137>>, <<>>}

\* One -z argument (main.c:477-546); constant is the label's characters.
Region(starting_address, compression, constant, type) ==
    [starting_address |-> starting_address, compression |-> compression,
     constant |-> constant, type |-> type]

\* No region registered: every segment is copied, padding is 0xFF.
PlainRecords ==
    {LegacySegment(1, 16, <<1, 2>>),
     LegacySegment(1, 32, <<3, 4>>),
     ExtendedSegment(1, 1, 17, <<5, 6, 7>>),
     LegacySegment(Z80Family, 0, <<170, 187, 204, 221>>),
     ExtendedSegment(2, 1, 34, <<>>),
     EntryPoint(16),
     EndMarker,
     ExtendedSegment(1, 2, 16, <<1, 2>>),
     <<129, 1, 255, 1>> \o LittleEndian(16, 4) \o LittleEndian(1, 2) \o <<9>>,
     <<130>>, <<255>>}
    \cup Truncated(ExtendedSegment(1, 2, 16, <<1, 2>>), {4})
    \cup Truncated(ExtendedSegment(1, 1, 17, <<5, 6, 7>>), 0..12)
    \cup Truncated(EntryPoint(16), 1..4)

\* Two regions placed after the previous segment.
AfterRecords ==
    {LegacySegment(Z80Family, 0, <<16, 17>>),
     ExtendedSegment(Z80Family, 1, 2, <<18>>),
     LegacySegment(Z80Family, 8, <<24>>),
     LegacySegment(Z80Family, 4, <<26>>),
     LegacySegment(1, 0, <<1, 2, 3, 4>>),
     ExtendedSegment(1, 1, 6, <<7, 8>>),
     LegacySegment(Z80Family, 0, <<>>),
     EntryPoint(0),
     EndMarker,
     ExtendedSegment(Z80Family, 3, 0, <<16, 17>>),
     <<129, Z80Family, 0>>, <<129, Z80Family, 0, 3>>,
     LegacySegment(Z80Family, 2, <<>>)}
    \cup Truncated(LegacySegment(Z80Family, 0, <<16, 17>>), {0, 3, 6, 8})

\* A region placed over the previous segment.
BeforeRecords ==
    {LegacySegment(1, 0, <<1, 2, 3, 4>>),
     LegacySegment(1, 4, <<5, 6>>),
     LegacySegment(Z80Family, 0, <<16, 17>>),
     LegacySegment(Z80Family, 2, <<18, 19, 20>>),
     ExtendedSegment(Z80Family, 1, 256, <<32>>),
     EntryPoint(0),
     EndMarker,
     <<129, 1, 0, 0>>}
    \cup Truncated(LegacySegment(1, 4, <<5, 6>>), {0, 7, 8})

\* Runs that fill z80_buffer.
FullRecords ==
    {LegacySegment(Z80Family, 0, Payload(0, Z80BufferSize - 1)),
     LegacySegment(Z80Family, Z80BufferSize - 1, <<254>>),
     SubSeq(LegacySegment(Z80Family, Z80BufferSize - 1, <<254, 255>>), 1, 7),
     LegacySegment(Z80Family, 0, Payload(0, Z80BufferSize)),
     SubSeq(LegacySegment(Z80Family, 0, Payload(0, Z80BufferSize + 1)), 1, 7),
     LegacySegment(Z80Family, Z80BufferSize, <<253>>),
     LegacySegment(Z80Family, 0, <<170, 187, 204, 221>>),
     SubSeq(LegacySegment(Z80Family, Z80BufferSize, <<253>>), 1, 7),
     LegacySegment(1, 0, <<1>>),
     EntryPoint(0),
     EndMarker}

\* Two runs, each followed by a segment copied verbatim, in a longer stream.
LongRecords ==
    {LegacySegment(Z80Family, 4, <<26>>),
     LegacySegment(Z80Family, 0, <<16, 17>>),
     LegacySegment(1, 16, <<9>>),
     LegacySegment(1, 32, <<7, 8>>),
     EndMarker}

\* Two regions placed over the previous segment, one run after the other.
TwiceRecords ==
    {LegacySegment(1, 0, <<1, 2, 3, 4>>),
     LegacySegment(Z80Family, 0, <<16, 17>>),
     LegacySegment(Z80Family, 4, <<26>>),
     EndMarker}

Environments == {"plain", "after", "before", "full", "long", "twice"}

\* The legacy engine: Sonic 2 (Saxman, after the previous segment) and Sonic 3 & Knuckles
\* (-3: Kosinski, over the previous segment; -c2: a second driver at address 2).
Sonic2Records ==
    {LegacySegment(Z80Family, 0, <<16, 17>>),
     ExtendedSegment(Z80Family, 1, 2, <<18>>),
     LegacySegment(1, 0, <<1, 2, 3, 4>>),
     ExtendedSegment(1, 1, 6, <<7, 8>>),
     LegacySegment(Z80Family, 6, <<22>>),
     EntryPoint(0),
     EndMarker,
     ExtendedSegment(1, 0, 6, <<7, 8>>),
     <<129, 1, 0, 0>>,
     <<131>>}
    \cup Truncated(ExtendedSegment(1, 1, 6, <<7, 8>>), {0, 2, 9, 11})

Sonic3Records ==
    {LegacySegment(1, 0, Payload(1, 20)),
     LegacySegment(Z80Family, 0, <<16, 17>>),
     LegacySegment(Z80Family, 2, <<18>>),
     LegacySegment(1, 20, <<21, 22>>),
     SubSeq(LegacySegment(1, 20, <<21, 22>>), 1, 7),
     EntryPoint(0),
     EndMarker,
     <<129, 1, 0, 4>>,
     <<>>}

\* -c2 alone: a second driver at address 2, right where the first one ends.
SecondRecords ==
    {LegacySegment(Z80Family, 0, <<16, 17>>),
     LegacySegment(1, 8, <<9>>),
     LegacySegment(Z80Family, 2, <<18>>),
     EndMarker}

LegacyEnvironments == {"sonic2", "sonic3", "second"}

Records(e) ==
    CASE e = "plain" -> PlainRecords
      [] e = "after" -> AfterRecords
      [] e = "before" -> BeforeRecords
      [] e = "full" -> FullRecords
      [] e = "long" -> LongRecords
      [] e = "twice" -> TwiceRecords
      [] e = "sonic2" -> Sonic2Records
      [] e = "sonic3" -> Sonic3Records
      [] e = "second" -> SecondRecords

\* The number of records of the streams of an environment.
RecordsIn(e) == IF e \in {"long", "twice", "second"} THEN MaxRecords + 1 ELSE MaxRecords

\* What an encoder may write for a buffer.
EncoderOutputs(e) ==
    CASE e = "after" -> {<<225>>, <<225, 226, 227>>}
      [] e = "before" -> {<<225>>, <<225, 226, 227, 228, 229>>}
      [] e = "sonic2" -> {<<225>>, <<225, 226, 227, 228, 229>>}
      [] e = "sonic3" -> {<<225>>, Payload(225, 17)}
      [] OTHER -> {<<225>>}

RegionsOf(e) ==
    CASE e = "after" -> <<Region(0, "COMPRESSION_UNCOMPRESSED", <<"A">>, "TYPE_AFTER"),
                          Region(2, "COMPRESSION_SAXMAN", <<"B">>, "TYPE_AFTER"),
                          Region(4, "COMPRESSION_KOSINSKI", <<"C">>, "TYPE_AFTER")>>
      [] e = "before" -> <<Region(0, "COMPRESSION_UNCOMPRESSED", <<"A">>, "TYPE_BEFORE"),
                           Region(256, "COMPRESSION_KOSINSKI_OPTIMISED", <<"B">>, "TYPE_BEFORE")>>
      [] e = "full" -> <<Region(0, "COMPRESSION_UNCOMPRESSED", <<"A">>, "TYPE_AFTER")>>
      [] e = "twice" -> <<Region(0, "COMPRESSION_UNCOMPRESSED", <<"A">>, "TYPE_BEFORE"),
                          Region(4, "COMPRESSION_UNCOMPRESSED", <<"B">>, "TYPE_BEFORE")>>
      [] e = "long" -> <<Region(0, "COMPRESSION_UNCOMPRESSED", <<"A">>, "TYPE_AFTER"),
                         Region(4, "COMPRESSION_KOSINSKI", <<"C">>, "TYPE_AFTER")>>
      [] OTHER -> <<>>

PaddingValueOf(e) ==
    CASE e \in {"plain", "sonic3"} -> 255
      [] e = "before" -> 511
      [] OTHER -> 0

HeaderFilenameOf(e) ==
    IF e \in {"after", "before", "long", "sonic2", "sonic3"} THEN "header.h" ELSE NullName

HeaderFileOf(e) ==
    IF e \in {"after", "long", "sonic2"} THEN [i \in 1..24 |-> "."] ELSE NoFile

CompressionFormatOf(e) ==
    CASE e = "sonic2" -> "COMPRESSION_SAXMAN"
      [] e = "sonic3" -> "COMPRESSION_KOSINSKI"
      [] OTHER -> "COMPRESSION_UNCOMPRESSED"

\* The encoder's doing when a run of the given compression is flushed in this step.
EncodingsOf(compression) ==
    IF compression \in StreamingCompression
    THEN {[out |-> o, ok |-> TRUE] : o \in EncoderOutputs(env)}
    ELSE IF compression \in OptimisedCompression
    THEN {[out |-> o, ok |-> TRUE] : o \in EncoderOutputs(env)} \cup {[out |-> <<>>, ok |-> FALSE]}
    ELSE {[out |-> <<>>, ok |-> TRUE]}

Encodings ==
    IF current_compressed_segment = NULL THEN {[out |-> <<>>, ok |-> TRUE]}
    ELSE EncodingsOf(compressed_segment_list_head[current_compressed_segment].compression)

Legacy_Encodings ==
    IF ~last_segment_was_compressable_z80_code THEN {[out |-> <<>>, ok |-> TRUE]}
    ELSE EncodingsOf(compression_format)

----------------------------------------------------------------------------
(* The steps of main. *)

State(bytes) ==
    [input |-> bytes, output_file |-> output_file, header_file |-> header_file,
     z80_buffer |-> z80_buffer, z80_read_index |-> z80_read_index,
     z80_write_index |-> z80_write_index, maximum_address |-> maximum_address,
     last_z80_segment_end |-> last_z80_segment_end,
     previous_68k_segment_start |-> previous_68k_segment_start,
     previous_68k_segment_length |-> previous_68k_segment_length,
     current_compressed_segment |-> current_compressed_segment,
     last_segment_was_compressable_z80_code |-> last_segment_was_compressable_z80_code,
     current_constant |-> current_constant,
     history |-> history, error |-> "", returned |-> ""]

Configuration ==
    <<env, header_filename, padding_value, compressed_segment_list_head, compression_format,
      additional_compressed_segment_address, skdisasm_compatibility, constants>>

\* The statics as the program starts, and both files opened (main.c:59-71, 579-594).
Started ==
    /\ header_filename = HeaderFilenameOf(env)
    /\ header_file = HeaderFileOf(env)
    /\ padding_value = PaddingValueOf(env)
    /\ input_read = <<>>
    /\ output_file = [data |-> <<>>, pos |-> 0]
    /\ output_exists = TRUE
    /\ padding_buffer = 0
    /\ z80_buffer = <<>>
    /\ z80_read_index = 0
    /\ z80_write_index = 0
    /\ maximum_address = 0
    /\ last_z80_segment_end = ULONG_MAX
    /\ previous_68k_segment_start = 0
    /\ previous_68k_segment_length = 0
    /\ current_compressed_segment = NULL
    /\ last_segment_was_compressable_z80_code = FALSE
    /\ current_constant = 0
    /\ pc = "magic"
    /\ result = ""
    /\ exit_code = EXIT_FAILURE
    /\ records_done = 0
    /\ history = <<>>
    /\ mark = 0

\* The list-based engine after its arguments are parsed (main.c:421-594).
Init ==
    /\ env \in Environments
    /\ compressed_segment_list_head = RegionsOf(env)
    /\ compression_format = "COMPRESSION_UNCOMPRESSED"
    /\ additional_compressed_segment_address = 0
    /\ skdisasm_compatibility = FALSE
    /\ constants = <<"[UNKNOWN]", "[UNKNOWN]">>
    /\ Started

\* The legacy engine after its arguments are parsed (main.c:1013-1166).
Legacy_Init ==
    /\ env \in LegacyEnvironments
    /\ compressed_segment_list_head = <<>>
    /\ compression_format = CompressionFormatOf(env)
    /\ additional_compressed_segment_address = (IF env \in {"sonic3", "second"} THEN 2 ELSE 0)
    /\ skdisasm_compatibility = (env = "sonic3")
    /\ constants = (IF env = "sonic3" THEN <<"Z80_Space", "Z80_Space2">>
                    ELSE <<"[UNKNOWN]", "[UNKNOWN]">>)
    /\ Started

\* main.c:596-603 and ProcessRecords' memset (main.c:363).
Main_ReadMagic ==
    /\ pc = "magic"
    /\ \E magic \in Magics :
        /\ input_read' = magic
        /\ IF Len(magic) < 2
           THEN pc' = "returned" /\ result' = "Could not read header magic value"
                /\ UNCHANGED padding_buffer
           ELSE IF magic[1] # 137 \/ magic[2] # 20
           THEN pc' = "returned" /\ result' = "Invalid header magic value"
                /\ UNCHANGED padding_buffer
           ELSE pc' = "records" /\ result' = ""
                /\ padding_buffer' = padding_value % 256
    /\ UNCHANGED <<Configuration, header_file, output_file, output_exists, z80_buffer,
                   z80_read_index, z80_write_index, maximum_address, last_z80_segment_end,
                   previous_68k_segment_start, previous_68k_segment_length,
                   current_compressed_segment, last_segment_was_compressable_z80_code,
                   current_constant, exit_code, records_done, history, mark>>

\* What the input file holds next: one of the records, or, MaxRecords records into
\* it, its end.
NextBytes == IF records_done < RecordsIn(env) THEN Records(env) ELSE {<<>>}

\* The globals after one iteration of ProcessRecords' loop that read bytes and ended in st.
Iterated(bytes, st) ==
    /\ st.input = <<>>
    /\ input_read' = bytes
    /\ output_file' = st.output_file
    /\ header_file' = st.header_file
    /\ z80_buffer' = st.z80_buffer
    /\ z80_read_index' = st.z80_read_index
    /\ z80_write_index' = st.z80_write_index
    /\ maximum_address' = st.maximum_address
    /\ last_z80_segment_end' = st.last_z80_segment_end
    /\ previous_68k_segment_start' = st.previous_68k_segment_start
    /\ previous_68k_segment_length' = st.previous_68k_segment_length
    /\ current_compressed_segment' = st.current_compressed_segment
    /\ last_segment_was_compressable_z80_code' = st.last_segment_was_compressable_z80_code
    /\ current_constant' = st.current_constant
    /\ history' = st.history
    /\ pc' = IF st.error # "" \/ st.returned # "" THEN "returned" ELSE "records"
    /\ result' = IF st.error # "" THEN st.error
                 ELSE IF st.returned = "cc_true" THEN "cc_true" ELSE ""
    /\ mark' = Len(history)
    /\ records_done' = records_done + 1
    /\ UNCHANGED <<Configuration, output_exists, padding_buffer, exit_code>>

\* main.c:367-418: one iteration of ProcessRecords' loop, over the bytes it reads.
ProcessRecords ==
    /\ env \in Environments
    /\ pc = "records"
    /\ \E bytes \in NextBytes : \E enc \in Encodings :
        \E st \in {ProcessRecord(State(bytes), enc)} :
            Iterated(bytes, st)

\* main.c:959-1010: the same loop in the legacy engine.
Legacy_ProcessRecords ==
    /\ env \in LegacyEnvironments
    /\ pc = "records"
    /\ \E bytes \in NextBytes : \E enc \in Legacy_Encodings :
        \E st \in {Legacy_ProcessRecord(State(bytes), enc)} :
            Iterated(bytes, st)

MainReturns ==
    /\ pc = "returned"
    /\ pc' = "exit"
    /\ exit_code' = IF result = "cc_true" THEN EXIT_SUCCESS ELSE EXIT_FAILURE
    /\ UNCHANGED <<Configuration, header_file, input_read, output_file, padding_buffer,
                   z80_buffer, z80_read_index, z80_write_index, maximum_address,
                   last_z80_segment_end, previous_68k_segment_start,
                   previous_68k_segment_length, current_compressed_segment,
                   last_segment_was_compressable_z80_code, current_constant, result,
                   records_done, history, mark>>

\* main.c:603-616: the exit code, fclose, and the output file removed on failure.
Main_Exit ==
    /\ env \in Environments
    /\ MainReturns
    /\ output_exists' = IF exit_code' = EXIT_FAILURE THEN FALSE ELSE output_exists

\* main.c:1175-1184: the exit code and fclose.
Legacy_Main_Exit ==
    /\ env \in LegacyEnvironments
    /\ MainReturns
    /\ UNCHANGED output_exists

Next == Main_ReadMagic \/ ProcessRecords \/ Main_Exit

Spec == Init /\ [][Next]_vars

Legacy_Next == Main_ReadMagic \/ Legacy_ProcessRecords \/ Legacy_Main_Exit

SpecLegacy == Legacy_Init /\ [][Legacy_Next]_vars

\* The list-based engine, which runs until main returns.
SpecLive == Spec /\ WF_vars(Next)

\* Either engine.
SpecAll == (Init \/ Legacy_Init) /\ [][Next \/ Legacy_Next]_vars

----------------------------------------------------------------------------
(* Properties of the conversion, stated over the state and its history.    *)

EventsOf(type) == {k \in 1..Len(history) : history[k].type = type}

\* Runs opened less runs flushed among the first n events.
OpenRuns(n) ==
    Cardinality({k \in 1..n : history[k].type = "open"})
        - Cardinality({k \in 1..n : history[k].type = "flush"})

\* The bytes appended to the run in progress after the first n events.
RECURSIVE Buffered(_)
Buffered(n) ==
    IF n = 0 \/ history[IF n = 0 THEN 1 ELSE n].type = "open" THEN <<>>
    ELSE IF history[n].type = "append" THEN Buffered(n - 1) \o history[n].payload
    ELSE Buffered(n - 1)

\* The region of the run in progress after the first n events.
RECURSIVE OpenRegion(_)
OpenRegion(n) ==
    IF n = 0 THEN NULL
    ELSE IF history[n].type = "open" THEN history[n].region
    ELSE OpenRegion(n - 1)

\* The processing of the record that logged event k ran to its end.
Completed(k) == k <= mark \/ result \in {"", "cc_true"}

\* C1: a run of buffered Z80 segments is flushed exactly once: when a segment
\* is to be copied verbatim, when a segment opens a new run, or when the end
\* marker is read; and at no other time.  No run is opened and nothing is
\* copied verbatim while a run is in progress, every flush is of the run in
\* progress and takes exactly the bytes buffered for it, and a conversion
\* that succeeds leaves no run in progress.
C1_FlushedOnce ==
    /\ \A n \in 0..Len(history) : OpenRuns(n) \in {0, 1}
    /\ \A k \in 1..Len(history) :
          history[k].type \in {"open", "padding", "verbatim"} => OpenRuns(k - 1) = 0
    /\ \A k \in EventsOf("flush") :
          /\ OpenRuns(k - 1) = 1
          /\ history[k].region = OpenRegion(k - 1)
          /\ history[k].input = Buffered(k - 1)
          /\ \/ history[k - 1].type = "segment"
             \/ k = mark + 1 /\ input_read = <<0>>
    /\ pc = "records" =>
          (current_compressed_segment # NULL <=> OpenRuns(Len(history)) = 1)
    /\ result = "cc_true" =>
          current_compressed_segment = NULL /\ OpenRuns(Len(history)) = 0

\* A conversion that flushed one run to open another and the other at the end marker.
C1_Witness ==
    /\ result = "cc_true"
    /\ Cardinality(EventsOf("flush")) = 2
    /\ \E k \in EventsOf("flush") : k < Len(history) /\ history[k + 1].type = "open"
    /\ history[Len(history)].type = "flush"

\* The addresses the registered regions start at.
Triggers ==
    {compressed_segment_list_head[i].starting_address :
        i \in 1..Len(compressed_segment_list_head)}

\* last_z80_segment_end after the first n events.
RunEnd(n) ==
    LET buffered == {k \in 1..n : history[k].type = "segment" /\ history[k].to = "z80_buffer"}
    IN  IF buffered = {} THEN ULONG_MAX
        ELSE LET last == CHOOSE k \in buffered : \A j \in buffered : j <= k
             IN  history[last].start + history[last].length

\* The segment of event k continues the run in progress.
Continues(k) ==
    /\ history[k].family = 81
    /\ OpenRuns(k - 1) = 1
    /\ history[k].start = RunEnd(k - 1)

\* C2: a segment goes to z80_buffer if and only if its family is 0x51 and
\* its address is a region's trigger address, or a run is in progress and
\* its address is the end of the last buffered segment.  Every other segment
\* flushes the run in progress and is copied verbatim.  A segment that
\* continues the run is appended to it without a new run being opened, even
\* at an address that is also a trigger.
C2_Routing ==
    \A k \in EventsOf("segment") :
        /\ history[k].to = "z80_buffer" <=>
              \/ history[k].family = 81 /\ history[k].start \in Triggers
              \/ Continues(k)
        /\ history[k].to = "output_file" /\ OpenRuns(k - 1) = 1 =>
              k < Len(history) /\ history[k + 1].type = "flush"
        /\ history[k].to = "output_file" /\ Completed(k) =>
              \E j \in EventsOf("verbatim") :
                  /\ j > k
                  /\ \A i \in (k + 1)..j : history[i].type # "segment"
                  /\ history[j].start = history[k].start
                  /\ Len(history[j].payload) = history[k].length
        /\ history[k].to = "z80_buffer" /\ Continues(k) =>
              /\ k < Len(history) => history[k + 1].type = "append"
              /\ Completed(k) =>
                    /\ k < Len(history)
                    /\ history[k + 1].start = history[k].start
                    /\ Len(history[k + 1].payload) = history[k].length
        /\ history[k].to = "z80_buffer" /\ ~Continues(k) =>
              /\ k < Len(history) /\ OpenRuns(k - 1) = 1 => history[k + 1].type = "flush"
              /\ k < Len(history) /\ OpenRuns(k - 1) = 0 => history[k + 1].type = "open"

\* A run continued at an address that is also a trigger, then flushed by a Z80
\* segment at an address that neither is a trigger nor continues the run.
C2_Witness ==
    \E k, j \in EventsOf("segment") :
        /\ k < j
        /\ Continues(k) /\ history[k].start \in Triggers /\ Completed(k)
        /\ history[j].family = 81 /\ history[j].to = "output_file"
        /\ OpenRuns(j - 1) = 1 /\ Completed(j)

\* The output right after a verbatim copy, and the scenario of the two segments.
C3_State ==
    /\ \A k \in EventsOf("verbatim") :
          k = Len(history) =>
              LET e == history[k]
              IN  /\ e.start > e.max_before =>
                        /\ history[k - 1].type = "padding"
                        /\ history[k - 1].start = e.max_before
                        /\ history[k - 1].length = e.start - e.max_before
                        /\ \A i \in (e.max_before + 1)..e.start :
                              output_file.data[i] = padding_value % 256
                  /\ e.start <= e.max_before => history[k - 1].type # "padding"
                  /\ \A i \in 1..Len(e.payload) : output_file.data[e.start + i] = e.payload[i]
    /\ (/\ padding_value = 255
        /\ EventsOf("flush") = {}
        /\ Cardinality(EventsOf("verbatim")) = 2
        /\ \E k, j \in EventsOf("verbatim") :
              /\ k < j
              /\ history[k].start = 16 /\ history[k].payload = <<1, 2>>
              /\ history[j].start = 32 /\ history[j].payload = <<3, 4>>)
       => output_file.data = [i \in 1..16 |-> 255] \o <<1, 2>>
                                \o [i \in 1..14 |-> 255] \o <<3, 4>>

\* A verbatim copy not preceded by a flush: the output before and after it.
C3_Step ==
    LET n == Len(history')
        e == history'[n]
    IN  (/\ n > Len(history)
         /\ e.type = "verbatim"
         /\ \A k \in (Len(history) + 1)..n : history'[k].type # "flush")
        => /\ Len(output_file'.data) =
                 Max(Len(output_file.data), e.start + Len(e.payload))
           /\ \A i \in 1..Len(output_file'.data) :
                 output_file'.data[i] =
                     IF e.start < i /\ i <= e.start + Len(e.payload)
                     THEN e.payload[i - e.start]
                     ELSE IF maximum_address < i /\ i <= e.start
                     THEN padding_value % 256
                     ELSE output_file.data[i]

\* C3: a segment copied verbatim at an address above maximum_address is
\* preceded by the offsets [maximum_address, address) filled with the
\* padding byte; otherwise the stream seeks to the address and nothing is
\* padded; then the payload is written at the address, and no other offset
\* changes.  Segments of 2 bytes at 0x10 and at 0x20 with padding 0xFF give
\* 0x22 bytes: 16 of 0xFF, the first payload, 14 of 0xFF, the second payload.
C3_Padding == []C3_State /\ [][C3_Step]_vars

\* The scenario of the two segments, converted.
C3_Witness ==
    /\ padding_value = 255
    /\ result = "cc_true"
    /\ Cardinality(EventsOf("verbatim")) = 2
    /\ Cardinality(EventsOf("padding")) = 2
    /\ output_file.data = [i \in 1..16 |-> 255] \o <<1, 2>>
                             \o [i \in 1..14 |-> 255] \o <<3, 4>>

\* The offsets event j of the history wrote.
Covered(j) ==
    CASE history[j].type = "padding" ->
            history[j].start..(history[j].start + history[j].length - 1)
      [] history[j].type = "verbatim" ->
            history[j].start..(history[j].start + Len(history[j].payload) - 1)
      [] history[j].type = "flush" -> history[j].start..(history[j].end - 1)
      [] OTHER -> {}

\* C4 as stated: after a conversion that succeeds, the output holds the
\* payload of every segment copied verbatim at the segment's offsets.
C4_Original ==
    result = "cc_true" =>
        \A k \in EventsOf("verbatim") :
            \A i \in 1..Len(history[k].payload) :
                /\ history[k].start + i <= Len(output_file.data)
                /\ output_file.data[history[k].start + i] = history[k].payload[i]

\* C4: the output holds the payload of every segment copied verbatim at each
\* of the segment's offsets that no later write (padding, a verbatim copy, a
\* flush) covers; right after the copy that is the whole payload.
C4_RoundTrip ==
    \A k \in EventsOf("verbatim") :
        \A i \in 1..Len(history[k].payload) :
            (\A j \in (k + 1)..Len(history) : (history[k].start + i - 1) \notin Covered(j))
                => /\ history[k].start + i <= Len(output_file.data)
                   /\ output_file.data[history[k].start + i] = history[k].payload[i]

\* A conversion that succeeded with a segment partly overwritten by a later write.
C4_Witness ==
    /\ result = "cc_true"
    /\ \E k \in EventsOf("verbatim") :
          \E i, h \in 1..Len(history[k].payload) :
              /\ output_file.data[history[k].start + i] # history[k].payload[i]
              /\ \A j \in (k + 1)..Len(history) : (history[k].start + h - 1) \notin Covered(j)

\* The greatest element of a set of numbers.
Greatest(S) == CHOOSE m \in S : \A x \in S : x <= m

\* The end offsets of the verbatim copies and the flushes among events from..to of h.
EndsOfWrites(h, from, to) ==
    {h[k].end : k \in {j \in from..to : h[j].type = "flush" /\ h[j].completed}}
        \cup {h[k].start + Len(h[k].payload) : k \in {j \in from..to : h[j].type = "verbatim"}}

\* C5: maximum_address never decreases, and every step leaves it the greatest
\* of its previous value and the end offsets of the step's verbatim copy and
\* flush.
C5_HighWaterMark ==
    [][/\ maximum_address' >= maximum_address
       /\ maximum_address' =
             Greatest({maximum_address}
                          \cup EndsOfWrites(history', Len(history) + 1, Len(history')))]_vars

\* A conversion that succeeded with a flush that ended below maximum_address and
\* a verbatim copy that raised it.
C5_Witness ==
    /\ result = "cc_true"
    /\ \E k \in EventsOf("flush") : history[k].completed /\ history[k].end < maximum_address
    /\ \E k \in EventsOf("verbatim") :
          history[k].start + Len(history[k].payload) = maximum_address

\* C6: after every record processed to its end, and when ProcessRecords
\* returns success, the output file is maximum_address bytes long, that is
\* the greatest end offset of the padding, the verbatim copies and the
\* flushes, and none of its offsets was never written.
C6_Length ==
    (pc = "records" \/ result = "cc_true") =>
        /\ Len(output_file.data) = maximum_address
        /\ \A i \in 1..Len(output_file.data) : output_file.data[i] # Hole
        /\ maximum_address =
              Greatest({0} \cup EndsOfWrites(history, 1, Len(history))
                           \cup {history[k].start + history[k].length :
                                    k \in EventsOf("padding")})

\* A conversion that succeeded with padding, verbatim copies and a flush.
C6_Witness ==
    /\ result = "cc_true"
    /\ maximum_address > 0
    /\ EventsOf("padding") # {}
    /\ EventsOf("verbatim") # {}
    /\ \E k \in EventsOf("flush") : history[k].end > history[k].start

\* The indices of z80_buffer.
C7_State ==
    /\ z80_read_index <= z80_write_index
    /\ z80_write_index <= 8192
    /\ Len(z80_buffer) <= 8192

\* A segment for z80_buffer: the total before it and what the step leaves.
C7_Step ==
    LET new == (Len(history) + 1)..Len(history')
        opened == \E k \in new : history'[k].type = "open"
        flushed == \E k \in new : history'[k].type = "flush"
        total == IF opened THEN 0 ELSE z80_write_index
    IN  \A k \in new :
            (/\ history'[k].type = "segment"
             /\ history'[k].to = "z80_buffer"
             /\ opened \/ ~flushed)
            => IF total + history'[k].length > 8192
               THEN /\ result' = "Compressed Z80 segment is too large"
                    /\ pc' = "returned"
                    /\ z80_buffer' = z80_buffer
                    /\ z80_write_index' = total
                    /\ \A j \in new : history'[j].type # "append"
                    /\ Len(input_read') = (IF input_read'[1] = 129 THEN 10 ELSE 7)
               ELSE /\ result' # "Compressed Z80 segment is too large"
                    /\ result' = "" =>
                          /\ z80_write_index' = total + history'[k].length
                          /\ history'[Len(history')].type = "append"
                          /\ SubSeq(z80_buffer', total + 1, z80_write_index')
                                = history'[Len(history')].payload

\* C7: z80_read_index <= z80_write_index <= 0x2000 in every state.  A segment
\* for the buffer whose length takes the total over 0x2000 aborts the
\* conversion with the buffer as it was and none of its payload read; a
\* total of 0x2000 or less is accepted.
C7_Capacity == []C7_State /\ [][C7_Step]_vars

\* The buffer filled to 0x2000 bytes, and the conversion aborted by one byte more.
C7_Witness ==
    /\ z80_write_index = 8192
    /\ Len(z80_buffer) = 8192
    /\ result = "Compressed Z80 segment is too large"

\* The number in the n bytes of b from index i on, least significant byte first.
RECURSIVE Decoded(_, _, _)
Decoded(b, i, n) == IF n = 0 THEN 0 ELSE b[i] + 256 * Decoded(b, i + 1, n - 1)

\* The segment record whose framing begins after the first skip bytes of the
\* bytes read: family, 4-byte address, 2-byte length, payload.
IsSegment(family, skip) ==
    LET b == input_read'
        first == Len(history) + 1
    IN  IF Len(b) < skip + 6
        THEN /\ result' = "File ended prematurely"
             /\ history' = history
        ELSE /\ Len(history') >= first
             /\ history'[first].type = "segment"
             /\ history'[first].family = family
             /\ history'[first].start = Decoded(b, skip + 1, 4)
             /\ history'[first].length = Decoded(b, skip + 5, 2)
             /\ \A k \in (first + 1)..Len(history') : history'[k].type # "segment"
             /\ result' = "" =>
                   /\ history'[Len(history')].type \in {"append", "verbatim"}
                   /\ history'[Len(history')].payload = SubSeq(b, skip + 7, Len(b))
                   /\ Len(b) = skip + 6 + history'[first].length

\* C8: the header byte classifies the record.  0x00: any run in progress is
\* flushed and ProcessRecords returns success.  0x80: four bytes are read and
\* nothing else changes.  0x81: family, an ignored byte, the granularity,
\* then a segment.  0x01..0x7F: a segment of the family the header byte is,
\* its address, length and payload following directly.  Any other value:
\* the conversion fails.  Address and length are little-endian.
C8_Classification ==
    [][LET b == input_read'
           new == (Len(history) + 1)..Len(history')
       IN  records_done' # records_done =>
             IF b = <<>> THEN result' = "File ended prematurely" /\ history' = history
             ELSE CASE b[1] = 0 ->
                        /\ Len(b) = 1
                        /\ pc' = "returned"
                        /\ \A k \in new : history'[k].type \in {"flush", "not enough space",
                                                               "warning"}
                        /\ (\A k \in new : history'[k].type # "flush") =>
                              /\ current_compressed_segment = NULL
                              /\ ~last_segment_was_compressable_z80_code
                              /\ result' = "cc_true"
                        /\ result' = "cc_true" =>
                              /\ current_compressed_segment' = NULL
                              /\ ~last_segment_was_compressable_z80_code'
                  [] b[1] = 128 ->
                        IF Len(b) < 5 THEN result' = "File ended prematurely"
                        ELSE /\ Len(b) = 5
                             /\ result' = ""
                             /\ pc' = "records"
                             /\ UNCHANGED <<output_file, header_file, z80_buffer,
                                            z80_read_index, z80_write_index, maximum_address,
                                            last_z80_segment_end, previous_68k_segment_start,
                                            previous_68k_segment_length,
                                            current_compressed_segment,
                                            last_segment_was_compressable_z80_code,
                                            current_constant, history>>
                  [] b[1] = 129 ->
                        IF Len(b) < 4
                        THEN result' = "File ended prematurely" /\ history' = history
                        ELSE IF b[4] # 1 THEN result' = "Unsupported granularity"
                        ELSE IsSegment(b[2], 4)
                  [] b[1] \in 1..127 -> IsSegment(b[1], 1)
                  [] OTHER ->
                        /\ Len(b) = 1
                        /\ result' = "Unrecognised record header value"
                        /\ pc' = "returned"
                        /\ UNCHANGED <<output_file, header_file, history>>]_vars

\* An extended record with an ignored byte that is not 0 and a legacy record
\* with an address above 0xFF, both processed to their ends.
C8_Witness ==
    \/ /\ input_read = <<129, 1, 255, 1, 16, 0, 0, 0, 1, 0, 9>>
       /\ result = ""
       /\ history[Len(history)].type = "verbatim"
       /\ history[Len(history)].start = 16
       /\ history[Len(history)].payload = <<9>>
    \/ /\ input_read = <<81, 255, 31, 0, 0, 1, 0, 254>>
       /\ result = ""
       /\ history[Len(history)].type = "append"
       /\ history[Len(history)].start = 8191

\* main's exit code after the failure.
C9_State == result = "Unsupported granularity" /\ pc = "exit" => exit_code = EXIT_FAILURE

\* The step that reads the granularity, and the steps after it.
C9_Step ==
    /\ (/\ records_done' # records_done
        /\ Len(input_read') >= 4
        /\ input_read'[1] = 129
        /\ input_read'[4] # 1)
       => /\ Len(input_read') = 4
          /\ result' = "Unsupported granularity"
          /\ pc' = "returned"
          /\ UNCHANGED <<output_file, header_file, z80_buffer, z80_read_index,
                         z80_write_index, maximum_address, last_z80_segment_end,
                         previous_68k_segment_start, previous_68k_segment_length,
                         current_compressed_segment, last_segment_was_compressable_z80_code,
                         current_constant, history>>
    /\ result = "Unsupported granularity"
       => UNCHANGED <<input_read, output_file, header_file, z80_buffer, z80_read_index,
                      z80_write_index, maximum_address, current_compressed_segment,
                      last_segment_was_compressable_z80_code, records_done, history, result>>

\* C9: an extended record whose granularity is not 1 makes ProcessRecords
\* return failure once the granularity byte is read: nothing more is read,
\* the output, the buffer and the history are left as they were, a run in
\* progress stays unflushed, no later record is processed, and main exits
\* with failure.
C9_Granularity == []C9_State /\ [][C9_Step]_vars

\* The conversion failed on the granularity while a run was in progress.
C9_Witness ==
    /\ result = "Unsupported granularity"
    /\ pc = "exit"
    /\ current_compressed_segment # NULL
    /\ z80_write_index > 0
    /\ OpenRuns(Len(history)) = 1

\* C10: when main returns, a conversion that failed has left no output file
\* and exits with failure; one that succeeded has kept it and exits with
\* success.
C10_NoArtifact ==
    pc = "exit" =>
        IF result = "cc_true"
        THEN output_exists /\ exit_code = EXIT_SUCCESS
        ELSE ~output_exists /\ exit_code = EXIT_FAILURE

\* A step in which a segment to be copied verbatim flushed a run: the events of
\* the segment and of the flush, and what follows them.
C11_Step ==
    LET first == Len(history) + 1
        n == Len(history')
        seg == history'[first]
        flush == history'[first + 1]
    IN  (/\ n >= first + 1
         /\ seg.type = "segment" /\ seg.to = "output_file"
         /\ flush.type = "flush" /\ flush.completed)
        => IF env \in Environments
           THEN compressed_segment_list_head[flush.region].type = "TYPE_AFTER" =>
                   IF seg.start < flush.end
                   THEN /\ n = first + 2
                        /\ history'[n].type = "not enough space"
                        /\ history'[n].size = flush.end - flush.start
                        /\ result' = "Space reserved for the compressed Z80 segments is too small"
                        /\ pc' = "returned"
                        /\ header_file' = header_file
                        /\ Len(output_file'.data) = Max(Len(output_file.data), flush.end)
                        /\ \A i \in 1..Len(output_file.data) :
                              i <= flush.start \/ i > flush.end
                                  => output_file'.data[i] = output_file.data[i]
                   ELSE /\ \A k \in first..n : history'[k].type # "not enough space"
                        /\ result' # "Space reserved for the compressed Z80 segments is too small"
           ELSE ~skdisasm_compatibility /\ flush.size # 0 =>
                   IF seg.start < flush.end
                   THEN /\ n >= first + 2
                        /\ history'[first + 2].type = "warning"
                        /\ history'[first + 2].size = flush.end - flush.start
                        /\ result' # "Space reserved for the compressed Z80 segments is too small"
                        /\ header_filename # NullName /\ header_file # NoFile =>
                              /\ n >= first + 3
                              /\ history'[first + 3].type = "report"
                              /\ history'[first + 3].size = flush.end - flush.start
                              /\ SubSeq(header_file', 1, Len(history'[first + 3].text))
                                    = history'[first + 3].text
                        /\ result' = "" =>
                              /\ history'[n].type = "verbatim"
                              /\ history'[n].start = seg.start
                              /\ Len(history'[n].payload) = seg.length
                              /\ \A i \in 1..seg.length :
                                    output_file'.data[seg.start + i] = history'[n].payload[i]
                   ELSE \A k \in first..n : history'[k].type # "warning"

\* C11: a run placed after the previous segment and flushed by a verbatim
\* segment that starts below the offset the codec ended at: the list-based
\* engine fails at once, with no padding, payload or size report written;
\* the legacy engine without -3 warns, writes the measured size to the
\* header file and copies the segment.
C11_Overflow == [][C11_Step]_vars

\* The legacy engine warned, reported the size and copied the segment.
C11_Witness ==
    /\ env \in LegacyEnvironments
    /\ ~skdisasm_compatibility
    /\ result = ""
    /\ Len(history) >= 3
    /\ history[Len(history)].type = "verbatim"
    /\ history[Len(history) - 1].type = "report"
    /\ history[Len(history) - 2].type = "warning"

\* C12: the codec output of a run placed over the previous segment starts at
\* previous_68k_segment_start, and in the list-based engine the flush fails
\* if and only if the output is longer than previous_68k_segment_length; an
\* output of just that length is accepted.
C12_Before ==
    [][\A k \in (Len(history) + 1)..Len(history') :
          (/\ env \in Environments
           /\ history'[k].type = "flush"
           /\ compressed_segment_list_head[history'[k].region].type = "TYPE_BEFORE")
          => /\ history'[k].start = previous_68k_segment_start
             /\ history'[k].completed =>
                   /\ \A i \in 1..(history'[k].end - history'[k].start) :
                         output_file'.data[previous_68k_segment_start + i] # Hole
                   /\ history'[k].end - history'[k].start > previous_68k_segment_length
                         <=> /\ result' = "Space reserved for the compressed Z80 segments is too small"
                             /\ pc' = "returned"
                             /\ k < Len(history')
                             /\ history'[k + 1].type = "not enough space"]_vars

\* A conversion that succeeded with a run output over a segment of the same length.
C12_Witness ==
    /\ result = "cc_true"
    /\ \E k \in EventsOf("flush") : \E j \in EventsOf("verbatim") :
          /\ j < k
          /\ \A i \in (j + 1)..(k - 1) : history[i].type # "verbatim"
          /\ compressed_segment_list_head[history[k].region].type = "TYPE_BEFORE"
          /\ history[k].start = history[j].start
          /\ history[k].size = Len(history[j].payload)
          /\ history[k].size > 0

\* C13: with a header file named, a conversion that succeeds has written one
\* size report for each run it flushed, whatever made the flush happen.
C13_OneReportPerRun ==
    result = "cc_true" /\ header_filename # NullName =>
        Cardinality(EventsOf("report")) = Cardinality(EventsOf("flush"))

\* The digits of n in base 16, upper case.
RECURSIVE Hexadecimal(_)
Hexadecimal(n) ==
    LET digit == CASE n % 16 = 0 -> "0" [] n % 16 = 1 -> "1" [] n % 16 = 2 -> "2"
                   [] n % 16 = 3 -> "3" [] n % 16 = 4 -> "4" [] n % 16 = 5 -> "5"
                   [] n % 16 = 6 -> "6" [] n % 16 = 7 -> "7" [] n % 16 = 8 -> "8"
                   [] n % 16 = 9 -> "9" [] n % 16 = 10 -> "A" [] n % 16 = 11 -> "B"
                   [] n % 16 = 12 -> "C" [] n % 16 = 13 -> "D" [] n % 16 = 14 -> "E"
                   [] OTHER -> "F"
    IN  IF n < 16 THEN <<digit>> ELSE Hexadecimal(n \div 16) \o <<digit>>

\* C14: the size report of a flushed run is the label of the run's region,
\* a space, "0x", the size in hexadecimal and a space.
C14_Label ==
    \A k \in EventsOf("report") :
        /\ k > 1
        /\ history[k - 1].type = "flush"
        /\ history[k].text =
              compressed_segment_list_head[history[k - 1].region].constant
                  \o <<" ", "0", "x">> \o Hexadecimal(history[k - 1].size) \o <<" ">>

\* With no run in progress, EmitCompressedZ80Code returns 0 and the state it was given.
C15_State ==
    current_compressed_segment = NULL =>
        \A enc \in EncodingsOf("COMPRESSION_KOSINSKI_OPTIMISED") :
            EmitCompressedZ80Code(State(<<>>), enc) = [st |-> State(<<>>), value |-> 0]

\* The records read with no run in progress: the end marker, a segment copied
\* verbatim, a segment that opens a run.
C15_Step ==
    LET new == (Len(history) + 1)..Len(history')
    IN  (/\ env \in Environments
         /\ records_done' # records_done
         /\ current_compressed_segment = NULL)
        => /\ \A k \in new : history'[k].type \notin {"flush", "not enough space", "report"}
           /\ header_file' = header_file
           /\ input_read' = <<0>> =>
                 /\ result' = "cc_true"
                 /\ UNCHANGED <<output_file, maximum_address, z80_read_index, z80_write_index,
                                previous_68k_segment_start, previous_68k_segment_length,
                                history>>
           /\ (\E k \in new : history'[k].type = "open") =>
                 UNCHANGED <<output_file, maximum_address, previous_68k_segment_start,
                             previous_68k_segment_length>>
           /\ result' \notin {"Space reserved for the compressed Z80 segments is too small",
                              "Could not open header file for amending",
                              "Failed to allocate memory for compressor"}

\* C15: with no run in progress EmitCompressedZ80Code returns 0 and leaves
\* the output file, its position, maximum_address, the buffer indices and
\* previous_68k_segment_start/length as they were, so a verbatim segment
\* read with no run in progress makes no overlap check and no size report.
C15_NoRun == []C15_State /\ [][C15_Step]_vars

\* A header file is named, a segment was copied with no run in progress, and the
\* end marker was read with no run in progress.
C15_Witness ==
    /\ result = "cc_true"
    /\ header_filename # NullName
    /\ compressed_segment_list_head # <<>>
    /\ EventsOf("verbatim") # {}
    /\ EventsOf("flush") = {}
    /\ output_file.pos < maximum_address

\* Numbers of bytes a Kosinski encoder may write.
EncodedLengths == {0, 1, 15, 16, 17, 31, 32, 33}

\* The configuration has a run compressed with the authentic Kosinski encoder.
HasKosinski ==
    \/ compression_format = "COMPRESSION_KOSINSKI"
    \/ \E i \in 1..Len(compressed_segment_list_head) :
          compressed_segment_list_head[i].compression = "COMPRESSION_KOSINSKI"

\* C16: after the n bytes the authentic Kosinski encoder writes, the flush
\* writes (-n) mod 16 zero bytes, between 0 and 15, so the size measured is
\* the smallest multiple of 16 that is n or more.
C16_KosinskiPadding ==
    /\ HasKosinski =>
          \A n \in EncodedLengths :
              LET encoded == fputcs(output_file, [i \in 1..n |-> 225])
                  padded == KosinskiPadding(encoded, ftell(output_file))
                  zeros == ftell(padded) - ftell(encoded)
                  size == ftell(padded) - ftell(output_file)
              IN  /\ zeros \in 0..15
                  /\ (n + zeros) % 16 = 0
                  /\ size = n + zeros
                  /\ size >= n /\ size - 16 < n
                  /\ \A i \in 1..zeros : padded.data[ftell(encoded) + i] = 0
                  /\ SubSeq(padded.data, 1, ftell(encoded))
                        = SubSeq(encoded.data, 1, ftell(encoded))
    /\ \A k \in EventsOf("flush") :
          (/\ history[k].completed
           /\ IF env \in Environments
              THEN compressed_segment_list_head[history[k].region].compression
                       = "COMPRESSION_KOSINSKI"
              ELSE compression_format = "COMPRESSION_KOSINSKI")
          => /\ history[k].size = history[k].end - history[k].start
             /\ history[k].size % 16 = 0

\* A run whose encoder wrote 17 bytes, measured as 32.
C16_Witness ==
    /\ compression_format = "COMPRESSION_KOSINSKI"
    /\ \E k \in EventsOf("flush") : history[k].completed /\ history[k].size = 32
    /\ \E j \in 1..(Len(output_file.data) - 31) :
          /\ SubSeq(output_file.data, j, j + 16) = Payload(225, 17)
          /\ \A i \in 17..31 : output_file.data[j + i] = 0

\* The bytes read end before the header byte and the framing fields of a record do.
FramingCut(b) ==
    \/ b = <<>>
    \/ b[1] = 128 /\ Len(b) < 5
    \/ b[1] = 129 /\ (Len(b) < 4 \/ (b[4] = 1 /\ Len(b) < 10))
    \/ b[1] \in 1..127 /\ Len(b) < 7

\* The bytes read end before the payload of a segment record does.
PayloadCut(b) ==
    \/ b[1] = 129 /\ Len(b) >= 10 /\ b[4] = 1 /\ Len(b) < 10 + Decoded(b, 9, 2)
    \/ b[1] \in 1..127 /\ Len(b) >= 7 /\ Len(b) < 7 + Decoded(b, 6, 2)

\* C17: 'File ended prematurely' is raised only when the bytes read end
\* before the record does, and always when they end inside the header byte
\* or the framing fields; a complete segment record of length 0 does not
\* raise it.
C17_Premature ==
    [][records_done' # records_done =>
          /\ FramingCut(input_read') => result' = "File ended prematurely"
          /\ result' = "File ended prematurely" =>
                FramingCut(input_read') \/ PayloadCut(input_read')]_vars

\* C18: the conversion of a finite stream ends, in success or in failure.
\* Every iteration of the loop reads at least one byte or ends the
\* conversion; success follows only the end marker; the end of the stream
\* read in place of a header byte ends the conversion in failure.
C18_Terminates ==
    /\ <>(pc = "exit")
    /\ [](pc = "exit" =>
            \/ result = "cc_true" /\ exit_code = EXIT_SUCCESS
            \/ result \notin {"", "cc_true"} /\ exit_code = EXIT_FAILURE)
    /\ [][records_done' # records_done =>
             /\ Len(input_read') >= 1 \/ pc' = "returned"
             /\ result' = "cc_true" <=>
                   /\ input_read' = <<0>>
                   /\ pc' = "returned"
                   /\ current_compressed_segment' = NULL
             /\ input_read' = <<>> =>
                   /\ result' = "File ended prematurely"
                   /\ pc' = "returned"
                   /\ UNCHANGED <<output_file, history>>]_vars

\* A stream of records with no end marker, read to its end: the conversion failed.
C18_Witness ==
    /\ pc = "exit"
    /\ exit_code = EXIT_FAILURE
    /\ result = "File ended prematurely"
    /\ input_read = <<>>
    /\ records_done > 2
    /\ EventsOf("verbatim") # {}
    /\ current_compressed_segment # NULL

\* The last run opened or segment appended among the first n events (0 if none).
LastOfRun(n) ==
    Greatest({0} \cup {k \in 1..n : history[k].type \in {"open", "append"}})

\* C19: while a run is open, z80_buffer up to z80_write_index is the
\* concatenation, in stream order, of the payloads of the segments appended
\* since the run was opened, and last_z80_segment_end is the region's trigger
\* address plus z80_write_index.  The first segment appended to a run starts
\* at the trigger address and every later one at the end address of the
\* segment appended before it.
C19_Contiguous ==
    /\ pc = "records" /\ current_compressed_segment # NULL =>
          /\ current_compressed_segment = OpenRegion(Len(history))
          /\ z80_write_index = Len(Buffered(Len(history)))
          /\ BufferBytes(z80_buffer, z80_write_index) = Buffered(Len(history))
          /\ last_z80_segment_end =
                compressed_segment_list_head[current_compressed_segment].starting_address
                    + z80_write_index
    /\ \A k \in EventsOf("append") :
          /\ LastOfRun(k - 1) # 0
          /\ LET last == history[LastOfRun(k - 1)]
             IN  IF last.type = "open"
                 THEN /\ history[k].start = last.start
                      /\ history[k].start =
                            compressed_segment_list_head[last.region].starting_address
                 ELSE history[k].start = last.start + Len(last.payload)

\* A run in progress of two segments, the second one at the end of the first.
C19_Witness ==
    /\ pc = "records"
    /\ current_compressed_segment # NULL
    /\ history[Len(history)].type = "append"
    /\ history[LastOfRun(Len(history) - 1)].type = "append"
    /\ Len(history[Len(history)].payload) > 0
    /\ z80_write_index = 3
    /\ Len(Buffered(Len(history))) > Len(history[Len(history)].payload)
    /\ \E k \in EventsOf("flush") : history[k].completed

\* The run flushed by event k went through the Uncompressed codec.
Uncompressed(k) ==
    compressed_segment_list_head[history[k].region].compression = "COMPRESSION_UNCOMPRESSED"

\* Event k is the flush made for the end marker, the last thing the conversion did.
FlushedLast(k) == k = Len(history) /\ pc = "returned" /\ input_read = <<0>>

\* The first offset event j wrote and the one after the last.
WrittenFrom(j) == IF history[j].type \in {"padding", "verbatim", "flush"} THEN history[j].start ELSE 0

WrittenTo(j) ==
    CASE history[j].type = "padding" -> history[j].start + history[j].length
      [] history[j].type = "verbatim" -> history[j].start + Len(history[j].payload)
      [] history[j].type = "flush" -> history[j].end
      [] OTHER -> 0

\* The write of event j touches no offset the flush of event k wrote.
Apart(k, j) == WrittenTo(j) <= history[k].start \/ WrittenFrom(j) >= history[k].end

\* C20: the size of a flush is the output cursor after the codec less the
\* cursor before it.  With the Uncompressed codec the bytes written are the
\* contents of the run buffer, so the size is z80_write_index, the sum of the
\* lengths of the run's segments.  A family-0x51 segment at address 0 with
\* the bytes AA BB CC DD and then the end marker give the 4-byte output
\* AA BB CC DD and maximum_address = 4.
C20_Size ==
    /\ \A k \in EventsOf("append") :
          LET segment == history[Greatest({j \in 1..k : history[j].type = "segment"})]
          IN  /\ segment.to = "z80_buffer"
              /\ segment.start = history[k].start
              /\ segment.length = Len(history[k].payload)
    /\ \A k \in EventsOf("flush") :
          history[k].completed =>
              /\ history[k].size = history[k].end - history[k].start
              /\ history[k].end <= Len(output_file.data)
              /\ FlushedLast(k) =>
                    /\ ftell(output_file) = history[k].end
                    /\ maximum_address >= history[k].end
              /\ Uncompressed(k) =>
                    /\ history[k].input = Buffered(k - 1)
                    /\ history[k].size = Len(history[k].input)
                    /\ FlushedLast(k) =>
                          history[k].size = z80_write_index
                    /\ IF \A j \in (k + 1)..Len(history) : Apart(k, j)
                       THEN SubSeq(output_file.data, history[k].start + 1, history[k].end)
                                = history[k].input
                       ELSE \A i \in 1..history[k].size :
                               (\A j \in (k + 1)..Len(history) :
                                     (history[k].start + i - 1) \notin Covered(j))
                                  => output_file.data[history[k].start + i]
                                         = history[k].input[i]
    /\ /\ result = "cc_true"
       /\ Cardinality(EventsOf("segment")) = 1
       /\ \E k \in EventsOf("append") :
             /\ history[k].start = 0
             /\ history[k].payload = <<170, 187, 204, 221>>
       /\ \E k \in EventsOf("flush") : Uncompressed(k)
       => /\ output_file.data = <<170, 187, 204, 221>>
          /\ maximum_address = 4

\* The stream of the segment AA BB CC DD at 0 and the end marker, converted
\* with an Uncompressed region at 0.
C20_Witness ==
    /\ result = "cc_true"
    /\ records_done = 2
    /\ input_read = <<0>>
    /\ z80_write_index = 4
    /\ \E k \in EventsOf("flush") :
          /\ Uncompressed(k)
          /\ history[k].completed
          /\ history[k].input = <<170, 187, 204, 221>>
          /\ history[k].start = 0 /\ history[k].size = 4
    /\ output_file.data = <<170, 187, 204, 221>>
    /\ maximum_address = 4

\* The offset where the last output operation among the first n events ended.
LastWriteEnd(n) ==
    LET writes == {j \in 1..n : history[j].type \in {"verbatim", "flush"}}
    IN  IF writes = {} THEN 0 ELSE WrittenTo(Greatest(writes))

\* The highest offset written by the first n events.
HighWater(n) == Greatest({0} \cup {WrittenTo(j) : j \in 1..n})

\* The run flushed by event k belongs to a region of the After policy.
After(k) == compressed_segment_list_head[history[k].region].type = "TYPE_AFTER"

\* C21: under the After policy the output of a flushed run begins where the
\* last output operation ended: at the end address of the last segment
\* copied verbatim, at the end of the output of the run flushed before, or
\* at 0 if nothing was written.  The addresses of the run's segments and
\* maximum_address have no part in it.
C21_AfterCursor ==
    \A k \in EventsOf("flush") :
        After(k) => history[k].start = LastWriteEnd(k - 1)

\* A run flushed below the high-water mark and away from its trigger address.
C21_Witness ==
    /\ \E k \in EventsOf("flush") :
          /\ After(k) /\ history[k].completed
          /\ history[k].start < HighWater(k - 1)
          /\ history[k].start # compressed_segment_list_head[history[k].region].starting_address
          /\ history[k].start = 17
    /\ result = "cc_true"

\* The flush of event k placed a run after the previous segment and was made
\* for the segment of event k - 1, which is to be copied verbatim.
FlushedForSegment(k) ==
    /\ history[k].completed
    /\ IF env \in Environments THEN After(k)
       ELSE ~skdisasm_compatibility /\ history[k].size # 0
    /\ k > 1
    /\ history[k - 1].type = "segment"
    /\ history[k - 1].to = "output_file"

\* The not-enough-space condition was raised for the flush of event k.
Raised(k) ==
    /\ k < Len(history)
    /\ history[k + 1].type \in {"not enough space", "warning"}

RECURSIVE Amended(_)
Amended(n) ==
    IF n = 0 THEN HeaderFileOf(env)
    ELSE IF history[n].type # "report" THEN Amended(n - 1)
    ELSE history[n].text
            \o SubSeq(Amended(n - 1), Len(history[n].text) + 1, Len(Amended(n - 1)))

C23_State ==
    /\ header_file # NoFile => header_file = Amended(Len(history))
    /\ header_file = NoFile => EventsOf("report") = {}

\* A step that flushed a run for a segment to be copied verbatim, with a header
\* file named: the report is written over the start of the file, or the file
\* cannot be opened and the conversion ends with the run's output written.
C23_Step ==
    LET new == (Len(history) + 1)..Len(history')
        reports == {k \in new : history'[k].type = "report"}
        flushes == {k \in new : history'[k].type = "flush" /\ history'[k].completed}
    IN  /\ Cardinality(reports) <= 1
        /\ reports = {} => header_file' = header_file
        /\ \A k \in reports :
              LET text == history'[k].text
              IN  /\ header_file # NoFile
                  /\ SubSeq(header_file', 1, Len(text)) = text
                  /\ Len(header_file') = Max(Len(header_file), Len(text))
                  /\ \A i \in (Len(text) + 1)..Len(header_file) :
                        header_file'[i] = header_file[i]
        /\ (records_done' # records_done
               /\ result' = "Could not open header file for amending") =>
              /\ header_filename # NullName /\ header_file = NoFile
              /\ pc' = "returned"
              /\ flushes # {}
              /\ \A k \in flushes :
                    /\ \A j \in (k + 1)..Len(history') : history'[j].type = "warning"
                    /\ ftell(output_file') = history'[k].end
                    /\ Len(output_file'.data) >= history'[k].end
                    /\ (env \in Environments
                        /\ compressed_segment_list_head[history'[k].region].compression
                              = "COMPRESSION_UNCOMPRESSED") =>
                          SubSeq(output_file'.data, history'[k].start + 1, history'[k].end)
                              = history'[k].input

\* C23: a size report is written from the start of the header file, which is
\* not truncated: after two reports the file begins with the text of the
\* second and keeps what the first wrote beyond the length of the second.
\* If the file cannot be opened the conversion fails, with the output of the
\* run already written.
C23_Header == []C23_State /\ [][C23_Step]_vars

\* Two reports in one conversion, the second one shorter than the first.
C23_Witness ==
    \E k, j \in EventsOf("report") :
        /\ k < j
        /\ Len(history[j].text) < Len(history[k].text)
        /\ SubSeq(header_file, 1, Len(history[j].text)) = history[j].text
        /\ header_file[Len(history[k].text)] = history[k].text[Len(history[k].text)]
        /\ header_file[Len(history[k].text)] # HeaderFileOf(env)[Len(history[k].text)]
        /\ Len(header_file) = Len(HeaderFileOf(env))
        /\ header_file[Len(header_file)] = "."

\* The header file could not be opened after a run was written to the output.
C23_Unopened ==
    /\ result = "Could not open header file for amending"
    /\ history[Len(history)].type = "flush"
    /\ history[Len(history)].size > 0
    /\ ftell(output_file) = history[Len(history)].end
    /\ output_file.data # <<>>

\* The run flushed by event k went through the authentic Saxman codec.
Saxman(k) ==
    IF env \in Environments
    THEN compressed_segment_list_head[history[k].region].compression = "COMPRESSION_SAXMAN"
    ELSE compression_format = "COMPRESSION_SAXMAN"

HasSaxman ==
    \/ env \in LegacyEnvironments /\ compression_format = "COMPRESSION_SAXMAN"
    \/ \E i \in 1..Len(compressed_segment_list_head) :
          compressed_segment_list_head[i].compression = "COMPRESSION_SAXMAN"

\* C24: for the authentic Saxman codec the flush writes the byte 0x4E right
\* after the bytes the encoder wrote and nothing else: the last byte of the
\* span is 0x4E and the size measured is the length of the encoder's output
\* plus 1.
C24_Terminator ==
    /\ HasSaxman =>
          \A enc \in EncodingsOf("COMPRESSION_SAXMAN") :
              LET from == ftell(output_file)
                  written == Compress(State(<<>>), "COMPRESSION_SAXMAN", from, enc).output_file
              IN  /\ ftell(written) = from + Len(enc.out) + 1
                  /\ written.data[ftell(written)] = 78
                  /\ SubSeq(written.data, from + 1, from + Len(enc.out)) = enc.out
                  /\ SubSeq(written.data, 1, CC_MIN(from, Len(output_file.data)))
                        = SubSeq(output_file.data, 1, CC_MIN(from, Len(output_file.data)))
                  /\ \A i \in (ftell(written) + 1)..Len(written.data) :
                        /\ i <= Len(output_file.data)
                        /\ written.data[i] = output_file.data[i]
    /\ \A k \in EventsOf("flush") :
          history[k].completed /\ Saxman(k) =>
              /\ history[k].size = history[k].end - history[k].start
              /\ \E o \in EncoderOutputs(env) : history[k].size = Len(o) + 1
              /\ (\A j \in (k + 1)..Len(history) : (history[k].end - 1) \notin Covered(j))
                    => output_file.data[history[k].end] = 78

\* A Saxman run whose encoder wrote 3 bytes, measured as 4, the last one 0x4E.
C24_Witness ==
    \E k \in EventsOf("flush") :
        /\ history[k].completed /\ Saxman(k)
        /\ history[k].size = 4
        /\ history[k].end <= Len(output_file.data)
        /\ SubSeq(output_file.data, history[k].start + 1, history[k].end)
              = <<225, 226, 227, 78>>

\* C25: in the legacy engine every segment read into z80_buffer belongs to a
\* run in progress: a run is opened for it unless it continues one, so the
\* flag is set after it, and a conversion that succeeds has handed its
\* payload to the codec in a later flush.
C25_InRun ==
    env \in LegacyEnvironments =>
        /\ \A k \in EventsOf("append") : OpenRuns(k) = 1
        /\ (pc = "records" /\ history # <<>> /\ history[Len(history)].type = "append")
              => last_segment_was_compressable_z80_code
        /\ result = "cc_true" =>
              \A k \in EventsOf("append") :
                  \E j \in EventsOf("flush") :
                      /\ j > k
                      /\ history[j].completed
                      /\ history[j].input = Buffered(j - 1)
                      /\ \A i \in (k + 1)..(j - 1) : history[i].type # "flush"

\* C26: after a conversion that succeeds, the spans of the output written by
\* the flushes of two runs have no offset in common.
C26_Disjoint ==
    result = "cc_true" =>
        \A j, k \in EventsOf("flush") :
            (j < k /\ history[j].completed /\ history[k].completed)
                => \/ history[j].end <= history[k].start
                   \/ history[k].end <= history[j].start

\* The run flushed by event k of the history h belongs to a region of the
\* Before policy.
Before(h, k) == compressed_segment_list_head[h[k].region].type = "TYPE_BEFORE"

\* A step of the list-based engine that flushed a run of a Before region.
C27_Step ==
    LET new == (Len(history) + 1)..Len(history')
        flushes == {k \in new : history'[k].type = "flush" /\ history'[k].completed
                                   /\ Before(history', k)}
        copied == {k \in new : history'[k].type = "verbatim"}
    IN  env \in Environments =>
            \A k \in flushes :
                LET flush == history'[k]
                    aborted == k < Len(history') /\ history'[k + 1].type = "not enough space"
                IN  /\ flush.start = previous_68k_segment_start
                    /\ aborted <=> flush.size > previous_68k_segment_length
                    /\ aborted =>
                          /\ pc' = "returned"
                          /\ result' = "Space reserved for the compressed Z80 segments is too small"
                    /\ ~aborted =>
                          /\ flush.start >= previous_68k_segment_start
                          /\ flush.end <= previous_68k_segment_start
                                              + previous_68k_segment_length
                          /\ flush.end <= maximum_address
                          /\ copied = {} => maximum_address' = maximum_address
                          /\ \A j \in copied :
                                maximum_address' =
                                    Max(maximum_address,
                                        history'[j].start + Len(history'[j].payload))
                    /\ (EventsOf("verbatim") = {} /\ flush.size >= 1) =>
                          /\ previous_68k_segment_start = 0
                          /\ previous_68k_segment_length = 0
                          /\ aborted

\* C27: in the list-based engine a flush under the Before policy that does not
\* abort writes inside the range of the last segment copied verbatim,
\* [previous_68k_segment_start, previous_68k_segment_start +
\* previous_68k_segment_length), and leaves maximum_address as it was; with
\* no segment copied yet the flush aborts if the codec wrote a byte.
C27_Inside ==
    /\ [](env \in Environments =>
            maximum_address >= previous_68k_segment_start + previous_68k_segment_length)
    /\ [][C27_Step]_vars

\* A run written over the whole of the previous segment, up to maximum_address.
C27_Witness ==
    \E k \in EventsOf("flush") :
        /\ history[k].completed /\ Before(history, k)
        /\ k = Len(history)
        /\ result = "cc_true"
        /\ history[k].size = previous_68k_segment_length
        /\ history[k].size > 0
        /\ history[k].start > 0
        /\ history[k].end = maximum_address
        /\ SubSeq(output_file.data, history[k].start + 1, history[k].end) = history[k].input

\* A run flushed with no segment copied yet: the conversion aborted.
C27_NoSegment ==
    /\ EventsOf("verbatim") = {}
    /\ \E k \in EventsOf("flush") :
          /\ history[k].completed /\ Before(history, k)
          /\ history[k].size >= 1
          /\ k < Len(history) /\ history[k + 1].type = "not enough space"
    /\ result = "Space reserved for the compressed Z80 segments is too small"

\* A step of the list-based engine that read a segment continuing the run in
\* progress, or an entry point.
C28_Step ==
    LET b == input_read'
        first == Len(history) + 1
        new == first..Len(history')
    IN  (env \in Environments /\ records_done' # records_done) =>
          /\ (/\ new # {}
              /\ history'[first].type = "segment"
              /\ history'[first].family = 81
              /\ current_compressed_segment # NULL
              /\ history'[first].start = last_z80_segment_end) =>
                 /\ UNCHANGED <<output_file, maximum_address, previous_68k_segment_start,
                                previous_68k_segment_length, header_file,
                                current_compressed_segment, z80_read_index>>
                 /\ history'[first].to = "z80_buffer"
                 /\ \A k \in new : history'[k].type \in {"segment", "append"}
                 /\ last_z80_segment_end' = history'[first].start + history'[first].length
                 /\ IF result' = ""
                    THEN /\ Len(history') = first + 1
                         /\ history'[first + 1].type = "append"
                         /\ Len(history'[first + 1].payload) = history'[first].length
                         /\ z80_write_index' = z80_write_index + history'[first].length
                         /\ BufferBytes(z80_buffer', z80_write_index')
                               = BufferBytes(z80_buffer, z80_write_index)
                                    \o history'[first + 1].payload
                    ELSE /\ Len(history') = first
                         /\ UNCHANGED <<z80_write_index, z80_buffer>>
          /\ (b # <<>> /\ b[1] = 128) =>
                 /\ UNCHANGED <<output_file, maximum_address, previous_68k_segment_start,
                                previous_68k_segment_length, history>>
                 /\ UNCHANGED <<current_compressed_segment, last_z80_segment_end,
                                z80_write_index, z80_read_index, z80_buffer>>
                 /\ Len(b) = 5 => result' = "" /\ pc' = "records"

\* C28: a segment that continues the run in progress and an entry-point
\* record leave the output file, its cursor, maximum_address and
\* previous_68k_segment_start and _length as they were.  The segment adds
\* its length to z80_write_index and sets last_z80_segment_end to its end
\* address; the entry point leaves the run as it was, so a segment that
\* follows it still continues the run.
C28_Frame == [][C28_Step]_vars

\* An entry point read after a run's second segment: the run of two segments
\* is still in progress and nothing was written to the output.
C28_Witness ==
    /\ pc = "records"
    /\ records_done = 3
    /\ Len(input_read) = 5 /\ input_read[1] = 128
    /\ current_compressed_segment # NULL
    /\ Len(history) = 5
    /\ mark = 5
    /\ history[2].type = "open"
    /\ history[3].type = "append"
    /\ history[5].type = "append"
    /\ history[5].start = history[3].start + Len(history[3].payload)
    /\ z80_write_index = Len(history[3].payload) + Len(history[5].payload)
    /\ last_z80_segment_end = history[5].start + Len(history[5].payload)
    /\ output_file = [data |-> <<>>, pos |-> 0]
    /\ maximum_address = 0

\* An entry point read between the two segments of a run.
C28_Between ==
    /\ pc = "records"
    /\ records_done = 2
    /\ Len(input_read) = 5 /\ input_read[1] = 128
    /\ current_compressed_segment # NULL
    /\ z80_write_index > 0
    /\ last_z80_segment_end \in {Decoded(r, 2, 4) : r \in {x \in Records(env) : Len(x) > 7 /\ x[1] = 81}}

====
